---- MODULE Spec2Model ----
(***************************************************************************)
(* A model of the message-building crate: the RFC 5322 line folder         *)
(* (rfc5322.rs), the ordered multi-valued header collection (header.rs)    *)
(* and the MIME message tree with its serializer (message.rs).             *)
(*                                                                         *)
(* Text is modelled as a sequence of one-character strings.  All modelled  *)
(* text is ASCII, so a byte index of the source is a character index here  *)
(* and len_utf8() of a character is 1.  Indices of the source are 0-based; *)
(* Slice translates them to the 1-based sequences of TLA+.                 *)
(***************************************************************************)
EXTENDS Integers, Sequences, FiniteSets, TLC

VARIABLES
    text,       \* Line folder: the argument of emit_folded
    result,     \* Line folder: Rfc5322Builder.result
    fpc,        \* Line folder: "start" before the call, "done" after it
    hmap,       \* Header map: the HeaderMap under test
    pre,        \* Header map: the HeaderMap as it was before the last operation
    last_op,    \* Header map: the last operation and its argument
    iter_pos,   \* Header map: position of the live HeaderIter, -1 when none
    yielded,    \* Header map: what the HeaderIter made last has yielded (empty once the map is changed)
    message,    \* Message tree: the MimeMessage held by a PartBuilder
    pre_type,   \* Message tree: Some(the message_type update_headers() found), None before the call
    rendered,   \* Message tree: Some(as_string()) of the node as it is now, None before the call
    addrs,      \* Address model: the Vec<Address> under test
    addr_name,  \* Address model: the name of the header the list is for
    shown,      \* Address model: Some(to_string() of each address), None before the call
    folded,     \* Address model: Some(Header::new_with_value(addr_name, addrs)), None before the call
    email_builder, \* Email builder: the EmailBuilder
    email,      \* Email builder: Some(what build() returned), None before the call
    added,      \* Email builder: the names of the headers the calls before build set, in call order
    body_arg,   \* Body: Some(the text the last call of PartBuilder::body was given), None before
    mtype,      \* Multipart type: Some(the type to_content_type was given), None before
    ctype,      \* Multipart type: the MimeContentType under test
    parsed      \* Multipart type: Some(what from_content_type(ctype) returned), None before

vars ==
    <<text, result, fpc, hmap, pre, last_op, iter_pos, yielded, message, pre_type, rendered,
      addrs, addr_name, shown, folded, email_builder, email, added,
      body_arg, mtype, ctype, parsed>>

foldVars == <<text, result, fpc>>
mapVars == <<hmap, pre, last_op, iter_pos, yielded>>
msgVars == <<message, pre_type, rendered>>
addrVars == <<addrs, addr_name, shown, folded>>
buildVars == <<email_builder, email, added>>
callVars == <<body_arg, mtype, ctype, parsed>>

(***************************************************************************)
(* Bounds of the model.                                                    *)
(***************************************************************************)
MaxPieces == 5      \* an input text of the line folder is made of at most this many pieces
MaxHeaders == 3     \* a HeaderMap under test holds at most this many entries
MaxMsgHeaders == 2  \* at most this many headers are inserted into a message node
MaxChildren == 2    \* a message node under construction gets at most this many children
MaxAddrs == 3       \* an address list under test has at most this many addresses
MaxEntries == 3     \* an EmailBuilder is given at most this many addresses in all
MaxCalls == 4       \* at most this many calls that add an entry are chained before build
MaxBodyLen == 5     \* a text given to PartBuilder::body has at most this many characters
MaxParams == 2      \* a node is given at most this many extra content-type parameters

(***************************************************************************)
(* Text helpers.                                                           *)
(***************************************************************************)
SP == " "
CR == "\r"
LF == "\n"
TAB == "\t"
CRLF == <<CR, LF>>
CRLFTAB == <<CR, LF, TAB>>

\* Rust's s[from..to] on 0-based byte indices
Slice(s, from, to) == SubSeq(s, from + 1, to)

Letters == <<"a", "b", "c">>
\* an unbreakable run of n visible characters
Word(n) == [i \in 1..n |-> Letters[((i - 1) % 3) + 1]]

\* the least element of a set of numbers
SetMin(S) == CHOOSE x \in S : \A y \in S : x <= y

RECURSIVE Flatten(_)
Flatten(ss) == IF ss = <<>> THEN <<>> ELSE Head(ss) \o Flatten(Tail(ss))

(***************************************************************************)
(* rfc5322.rs: Rfc5322Builder                                              *)
(***************************************************************************)
MIME_LINE_LENGTH == 78

emit_raw(res, s) == res \o s

\* the match on the scanned character, lines 70-81
SpaceAfter(c, pos, last_space) == IF c = SP THEN pos ELSE last_space
LenAfter(c, cur_len) == (IF c = CR \/ c = LF THEN 0 ELSE cur_len) + 1

\* the condition of line 85
ShouldCut(cur_len, last_space) == cur_len >= MIME_LINE_LENGTH /\ last_space > 0

\* line 88: the text emitted before the continuation
CutText(s, last_cut, last_space) == Slice(s, last_cut, last_space)

NextCutKeepsSpace(last_space) == last_space
\* line 94: the cut moves just past the space (len_utf8 of ' ' is 1)
NextCut(last_space) == last_space + 1

\* the state of the scan: the three counters and the builder's result
FoldStart(res) == [cur_len |-> 0, last_space |-> 0, last_cut |-> 0, result |-> res]

\* one iteration of the for loop of emit_folded, lines 69-97, at index pos
FoldStep(st, s, pos) ==
    LET c == s[pos + 1]
        ls == SpaceAfter(c, pos, st.last_space)
        cl == LenAfter(c, st.cur_len)
    IN  IF ShouldCut(cl, ls)
        THEN [cur_len |-> 0,
              last_space |-> 0,
              last_cut |-> NextCut(ls),
              result |-> emit_raw(emit_raw(st.result, CutText(s, st.last_cut, ls)),
                                  CRLFTAB)]
        ELSE [st EXCEPT !.cur_len = cl, !.last_space = ls]

\* the iterations of the for loop for the indices lo..hi, in order.  The range
\* is halved, and the state after the first half is computed (the test on
\* cur_len, which always holds) before the second half starts, so that the
\* evaluation does not nest once per character.
RECURSIVE FoldRange(_, _, _, _)
FoldRange(st, s, lo, hi) ==
    IF lo > hi
    THEN st
    ELSE IF lo = hi
         THEN FoldStep(st, s, lo)
         ELSE LET mid == (lo + hi) \div 2
                  half == FoldRange(st, s, lo, mid)
              IN  IF half.cur_len >= 0
                  THEN FoldRange(half, s, mid + 1, hi)
                  ELSE half

\* line 100: everything left in the string
FoldFinish(st, s) == emit_raw(st.result, Slice(s, st.last_cut, Len(s)))

\* Rfc5322Builder::emit_folded
emit_folded(res, s) == FoldFinish(FoldRange(FoldStart(res), s, 0, Len(s) - 1), s)

(***************************************************************************)
(* The line folder as a state machine: an input text is drawn, then        *)
(* emit_folded is called once on a fresh builder.                          *)
(***************************************************************************)
Pieces == {Word(1), Word(37), Word(40), Word(80), <<SP>>, CRLF}

FoldInit ==
    /\ \E n \in 0..MaxPieces : \E ps \in [1..n -> Pieces] : text = Flatten(ps)
    /\ result = <<>>
    /\ fpc = "start"

EmitFolded ==
    /\ fpc = "start"
    /\ result' = emit_folded(result, text)
    /\ fpc' = "done"
    /\ UNCHANGED text

(***************************************************************************)
(* header.rs: Header and HeaderMap                                         *)
(***************************************************************************)
Header_new(name, value) == [name |-> name, value |-> value]

None == <<>>
Some(x) == <<x>>

\* header names and values used by the model
NameContentType == <<"C", "o", "n", "t", "e", "n", "t", "-", "T", "y", "p", "e">>
NameTo == <<"T", "o">>
NameXTest == <<"X", "-", "t", "e", "s", "t">>
ValueHello == <<"h", "e", "l", "l", "o">>
ValueWorld == <<"w", "o", "r", "l", "d">>

\* every header name of the model: the key space of the name index
HeaderNames == {NameContentType, NameTo, NameXTest}

\* The name index is a HashMap<String, Vec<Arc<Header>>>.  It is modelled as
\* a function on HeaderNames; a vacant key maps to the empty sequence (the
\* code never stores an empty Vec under a key).  An Arc<Header> is modelled
\* by the immutable Header it points to.
HeaderMap_new ==
    [ordered_headers |-> <<>>, headers |-> [n \in HeaderNames |-> <<>>]]

insert_overwrite(map, header) ==
    [ordered_headers |->
         SelectSeq(map.ordered_headers, LAMBDA h : h.name # header.name) \o <<header>>,
     headers |-> [map.headers EXCEPT ![header.name] = <<header>>]]
\* HeaderMap::insert
insert(map, header) ==
    [ordered_headers |-> Append(map.ordered_headers, header),
     headers |-> [map.headers EXCEPT ![header.name] = Append(@, header)]]

\* Vec::remove(i), 0-based
RemoveAt(v, i) == SubSeq(v, 1, i) \o SubSeq(v, i + 2, Len(v))

\* the while loop of HeaderMap::replace, lines 170-185
RECURSIVE ReplaceLoop(_, _, _, _)
ReplaceLoop(oh, i, have_inserted, rc) ==
    IF i >= Len(oh)
    THEN oh
    ELSE IF oh[i + 1].name = rc.name
         THEN IF have_inserted
              THEN ReplaceLoop(RemoveAt(oh, i), i, have_inserted, rc)
              ELSE ReplaceLoop([oh EXCEPT ![i + 1] = rc], i, TRUE, rc)
         ELSE ReplaceLoop(oh, i + 1, have_inserted, rc)

\* HeaderMap::replace
replace(map, header) ==
    [ordered_headers |-> ReplaceLoop(map.ordered_headers, 0, FALSE, header),
     headers |-> [map.headers EXCEPT ![header.name] = <<header>>]]

\* HeaderMap::iter: the sequence a complete iteration yields
iter(map) == map.ordered_headers

\* HeaderMap::get
get(map, name) ==
    IF map.headers[name] = <<>>
    THEN None
    ELSE Some(map.headers[name][Len(map.headers[name])])

\* HeaderMap::len
len(map) == Len(map.ordered_headers)

\* HeaderMap::find
find(map, name) ==
    IF map.headers[name] = <<>> THEN None ELSE Some(map.headers[name])

(***************************************************************************)
(* The header map as a state machine.  insert and replace take &mut self,  *)
(* so neither runs while a HeaderIter borrows the map.                     *)
(***************************************************************************)
MapHeaders ==
    {Header_new(n, v) : n \in {NameContentType, NameTo}, v \in {ValueHello, ValueWorld}}

NoOp == [kind |-> "new", header |-> Header_new(<<>>, <<>>)]

MapInit ==
    /\ hmap = HeaderMap_new
    /\ pre = HeaderMap_new
    /\ last_op = NoOp
    /\ iter_pos = -1
    /\ yielded = <<>>

Insert(h) ==
    /\ iter_pos = -1
    /\ len(hmap) < MaxHeaders
    /\ hmap' = insert(hmap, h)
    /\ pre' = hmap
    /\ last_op' = [kind |-> "insert", header |-> h]
    /\ yielded' = <<>>
    /\ UNCHANGED iter_pos

Replace(h) ==
    /\ iter_pos = -1
    /\ hmap' = replace(hmap, h)
    /\ pre' = hmap
    /\ last_op' = [kind |-> "replace", header |-> h]
    /\ yielded' = <<>>
    /\ UNCHANGED iter_pos

\* iter(): a new HeaderIter at the start of the ordered list
Iter ==
    /\ iter_pos = -1
    /\ iter_pos' = 0
    /\ yielded' = <<>>
    /\ pre' = hmap
    /\ last_op' = [kind |-> "iter", header |-> Header_new(<<>>, <<>>)]
    /\ UNCHANGED hmap

\* HeaderIter::next returning Some
IterNext ==
    /\ iter_pos >= 0
    /\ iter_pos < Len(hmap.ordered_headers)
    /\ yielded' = Append(yielded, hmap.ordered_headers[iter_pos + 1])
    /\ iter_pos' = iter_pos + 1
    /\ UNCHANGED <<hmap, pre, last_op>>

\* HeaderIter::next returning None; the exhausted iterator is dropped
IterEnd ==
    /\ iter_pos >= 0
    /\ iter_pos >= Len(hmap.ordered_headers)
    /\ iter_pos' = -1
    /\ UNCHANGED <<hmap, pre, last_op, yielded>>

(***************************************************************************)
(* mimeheader.rs and message.rs                                            *)
(***************************************************************************)
BOUNDARY_LENGTH == 30

StrMultipart == <<"m", "u", "l", "t", "i", "p", "a", "r", "t">>
StrBoundary == <<"b", "o", "u", "n", "d", "a", "r", "y">>

MultipartTypes == {"Mixed", "Alternative", "Digest", "Encrypted", "Parallel", "Signed"}

StrMixed == <<"m", "i", "x", "e", "d">>

from_content_type_OnlyMixed(ct) ==
    LET major == ct[1]
        minor == ct[2]
    IN  IF major # StrMultipart THEN None
        ELSE IF minor = <<"a", "l", "t", "e", "r", "n", "a", "t", "i", "v", "e">> THEN Some("Alternative")
        ELSE IF minor = <<"d", "i", "g", "e", "s", "t">> THEN Some("Digest")
        ELSE IF minor = <<"e", "n", "c", "r", "y", "p", "t", "e", "d">> THEN Some("Encrypted")
        ELSE IF minor = <<"p", "a", "r", "a", "l", "l", "e", "l">> THEN Some("Parallel")
        ELSE IF minor = <<"s", "i", "g", "n", "e", "d">> THEN Some("Signed")
        ELSE IF minor = StrMixed THEN Some("Mixed")
        ELSE None
\* MimeMultipartType::from_content_type: the arms of the match in order
from_content_type(ct) ==
    LET major == ct[1]
        minor == ct[2]
    IN  IF major = StrMultipart /\ minor = <<"a", "l", "t", "e", "r", "n", "a", "t", "i", "v", "e">>
        THEN Some("Alternative")
        ELSE IF major = StrMultipart /\ minor = <<"d", "i", "g", "e", "s", "t">>
        THEN Some("Digest")
        ELSE IF major = StrMultipart /\ minor = <<"e", "n", "c", "r", "y", "p", "t", "e", "d">>
        THEN Some("Encrypted")
        ELSE IF major = StrMultipart /\ minor = <<"p", "a", "r", "a", "l", "l", "e", "l">>
        THEN Some("Parallel")
        ELSE IF major = StrMultipart /\ minor = <<"s", "i", "g", "n", "e", "d">>
        THEN Some("Signed")
        ELSE IF (major = StrMultipart /\ minor = StrMixed) \/ major = StrMultipart
        THEN Some("Mixed")
        ELSE None

\* MimeMultipartType::to_content_type
to_content_type(t) ==
    CASE t = "Mixed" -> <<StrMultipart, <<"m", "i", "x", "e", "d">>>>
      [] t = "Alternative" -> <<StrMultipart, <<"a", "l", "t", "e", "r", "n", "a", "t", "i", "v", "e">>>>
      [] t = "Digest" -> <<StrMultipart, <<"d", "i", "g", "e", "s", "t">>>>
      [] t = "Encrypted" -> <<StrMultipart, <<"e", "n", "c", "r", "y", "p", "t", "e", "d">>>>
      [] t = "Parallel" -> <<StrMultipart, <<"p", "a", "r", "a", "l", "l", "e", "l">>>>
      [] t = "Signed" -> <<StrMultipart, <<"s", "i", "g", "n", "e", "d">>>>

\* A HashMap<String, String> is a function from its keys to their values.
EmptyParams == [k \in {} |-> <<>>]

\* HashMap::insert
ParamsInsert(p, key, val) ==
    [k \in DOMAIN p \cup {key} |-> IF k = key THEN val ELSE p[k]]

\* HashMap::iter visits the entries in an order that the program does not
\* control: every order of the keys is possible
IterOrders(p) ==
    {o \in [1..Cardinality(DOMAIN p) -> DOMAIN p] :
        \A i, j \in 1..Cardinality(DOMAIN p) : i # j => o[i] # o[j]}

\* the for loop of to_header, lines 24-26, over the keys in the order visited
RECURSIVE ParamsLoop(_, _, _, _)
ParamsLoop(res, p, order, i) ==
    IF i > Len(order)
    THEN res
    ELSE ParamsLoop(res \o <<";", SP>> \o order[i] \o <<"=">> \o p[order[i]],
                    p, order, i + 1)

\* ToHeader for MimeContentTypeHeader, with the order in which params.iter()
\* visits the keys
to_header(value, order) ==
    ParamsLoop(value.content_type[1] \o <<"/">> \o value.content_type[2],
               value.params, order, 1)

\* Header::new_with_value for a ToHeader value: the start column is ignored
\* (header.rs lines 31-38), the converted value is stored as it is
Header_new_with_value(name, val) == Header_new(name, val)

\* a 30-character alphanumeric token
Token(c) == [i \in 1..BOUNDARY_LENGTH |-> c]

\* MimeMessage::random_boundary: the tokens the random source may give
BoundaryTokens == {Token("p"), Token("q")}

\* MimeMessage::new_blank_message, with the boundary the random source gave
new_blank_message(b) ==
    [headers |-> HeaderMap_new,
     body |-> <<>>,
     message_type |-> None,
     message_type_params |-> None,
     children |-> <<>>,
     boundary |-> b]

\* lines 184-187 of update_headers: a node with children is a multipart
DefaultType(msg) ==
    IF msg.children # <<>> /\ msg.message_type = None
    THEN [msg EXCEPT !.message_type = Some("Mixed")]
    ELSE msg

\* lines 192-196 of update_headers: the extra parameters plus the boundary
ContentTypeParams(msg) ==
    ParamsInsert(IF msg.message_type_params = None
                 THEN EmptyParams
                 ELSE msg.message_type_params[1],
                 StrBoundary, msg.boundary)

\* the iteration orders to_header may see in update_headers
UpdateOrders(msg) == IterOrders(ContentTypeParams(msg))

\* MimeMessage::update_headers
update_headers(msg, order) ==
    LET m == DefaultType(msg)
    IN  IF m.message_type # None
        THEN LET ct_header == [content_type |-> to_content_type(m.message_type[1]),
                               params |-> ContentTypeParams(m)]
             IN  [m EXCEPT !.headers =
                      replace(@, Header_new_with_value(NameContentType,
                                                       to_header(ct_header, order)))]
        ELSE m

\* MimeMessage::new_with_boundary_and_params, with the boundary the random
\* source gave to the blank message and the order in which to_header visits
\* the parameters
new_with_boundary_and_params(body, message_type, children, boundary, message_type_params, order) ==
    update_headers([new_blank_message(boundary) EXCEPT
                        !.body = body,
                        !.message_type = Some(message_type),
                        !.children = children,
                        !.boundary = boundary,
                        !.message_type_params = message_type_params],
                   order)

Header_to_string_NoSpace(h) == h.name \o <<":">> \o h.value
\* Display for Header
Header_to_string(h) == h.name \o <<":", SP>> \o h.value

\* the for loop of as_string, lines 209-212, from the entry at index i on
\* (the text emitted for one entry is computed, which the test on its length
\* brings about, before the loop goes on)
RECURSIVE EmitHeaders(_, _, _)
EmitHeaders(builder, hs, i) ==
    IF i > Len(hs)
    THEN builder
    ELSE LET b == emit_raw(emit_folded(builder, Header_to_string(hs[i])), CRLF)
         IN  IF Len(b) >= 0
             THEN EmitHeaders(b, hs, i + 1)
             ELSE b

\* line 229: what is emitted for one child, given its as_string()
ChildText(boundary, part_string) ==
    <<"-", "-">> \o boundary \o CRLF \o part_string \o CRLF

ClosingTextAsDelimiter(boundary) == <<"-", "-">> \o boundary \o CRLF
\* line 232: the closing line
ClosingText(boundary) == <<"-", "-">> \o boundary \o <<"-", "-">> \o CRLF

RECURSIVE as_string(_), as_string_without_headers_internal(_, _), EmitChildren(_, _, _)

\* the for loop of lines 228-230, from the child at index i on
EmitChildren(builder, msg, i) ==
    IF i > Len(msg.children)
    THEN builder
    ELSE EmitChildren(emit_raw(builder,
                               ChildText(msg.boundary, as_string(msg.children[i]))),
                      msg, i + 1)

as_string_without_headers_internal_BodyUnterminated(msg, builder) ==
    LET b == emit_raw(builder, msg.body)
    IN  IF msg.children # <<>>
        THEN emit_raw(EmitChildren(b, msg, 1), ClosingText(msg.boundary))
        ELSE b
\* MimeMessage::as_string_without_headers_internal
as_string_without_headers_internal(msg, builder) ==
    LET b == emit_raw(builder, msg.body \o CRLF)
    IN  IF msg.children # <<>>
        THEN emit_raw(EmitChildren(b, msg, 1), ClosingText(msg.boundary))
        ELSE b

\* MimeMessage::as_string
as_string(msg) ==
    as_string_without_headers_internal(
        msg, emit_raw(EmitHeaders(<<>>, iter(msg.headers), 1), CRLF))

(***************************************************************************)
(* email_builder.rs: PartBuilder, and the parts EmailBuilder makes         *)
(***************************************************************************)
\* LINE_BREAKS_RE.replace_all(body, "\r\n"): the matches of (\r\n|\r|\n) are
\* found from left to right, a CR followed by LF being one match
RECURSIVE NormalizeFrom(_, _)
NormalizeFrom(s, i) ==
    IF i > Len(s)
    THEN <<>>
    ELSE IF s[i] = CR /\ i < Len(s) /\ s[i + 1] = LF
         THEN CRLF \o NormalizeFrom(s, i + 2)
         ELSE IF s[i] = CR \/ s[i] = LF
              THEN CRLF \o NormalizeFrom(s, i + 1)
              ELSE <<s[i]>> \o NormalizeFrom(s, i + 1)

RECURSIVE NormalizeFrom_EachCharacter(_, _)
NormalizeFrom_EachCharacter(s, i) ==
    IF i > Len(s)
    THEN <<>>
    ELSE IF s[i] = CR \/ s[i] = LF
         THEN CRLF \o NormalizeFrom_EachCharacter(s, i + 1)
         ELSE <<s[i]>> \o NormalizeFrom_EachCharacter(s, i + 1)

PartBuilder_body_EachCharacter(msg, body) ==
    [msg EXCEPT !.body = NormalizeFrom_EachCharacter(body, 1)]
\* PartBuilder::body
PartBuilder_body(msg, body) == [msg EXCEPT !.body = NormalizeFrom(body, 1)]

\* PartBuilder::header
PartBuilder_header(msg, h) == [msg EXCEPT !.headers = insert(@, h)]

\* PartBuilder::replace_header
PartBuilder_replace_header(msg, h) == [msg EXCEPT !.headers = replace(@, h)]

\* PartBuilder::message_type
PartBuilder_message_type(msg, t) == [msg EXCEPT !.message_type = Some(t)]

\* PartBuilder::child
PartBuilder_child(msg, child) == [msg EXCEPT !.children = Append(@, child)]

ValueTextPlain == <<"t", "e", "x", "t", "/", "p", "l", "a", "i", "n", ";", " ", "c", "h", "a", "r", "s", "e", "t", "=", "u", "t", "f", "-", "8">>
ValueTextHtml == <<"t", "e", "x", "t", "/", "h", "t", "m", "l", ";", " ", "c", "h", "a", "r", "s", "e", "t", "=", "u", "t", "f", "-", "8">>
BodyText == <<"H", "e", "l", "l", "o">>
BodyHtml == <<"<", "p", ">", "H", "e", "l", "l", "o", "<", "/", "p", ">">>

\* the part EmailBuilder::text builds, lines 302-305 (a node without type or
\* children, which update_headers leaves as it is)
TextPart(b) ==
    update_headers(
        PartBuilder_header(PartBuilder_body(new_blank_message(b), BodyText),
                           Header_new(NameContentType, ValueTextPlain)),
        <<>>)

\* the part EmailBuilder::html builds, lines 311-314
HtmlPart(b) ==
    update_headers(
        PartBuilder_header(PartBuilder_body(new_blank_message(b), BodyHtml),
                           Header_new(NameContentType, ValueTextHtml)),
        <<>>)

\* the part EmailBuilder::alternative builds, lines 324-340; its only
\* Content-Type parameter is the boundary
AlternativePart(b, bt, bh) ==
    update_headers(
        PartBuilder_child(
            PartBuilder_child(
                PartBuilder_message_type(new_blank_message(b), "Alternative"),
                TextPart(bt)),
            HtmlPart(bh)),
        <<StrBoundary>>)

(***************************************************************************)
(* The message tree as a state machine: a PartBuilder's node is changed by *)
(* the builder's operations, then normalized by update_headers             *)
(* (PartBuilder::build, which consumes the builder) and serialized by      *)
(* as_string; as_string takes &self and may also run on a node that was    *)
(* not normalized.                                                         *)
(***************************************************************************)
ValueLong == Word(80)

\* the headers the builder is given
MsgHeaders ==
    {Header_new(NameContentType, ValueTextPlain), Header_new(NameXTest, ValueLong)}

\* the bodies the builder is given
MsgBodies == {<<"a", LF, "b", CR>>}

\* the multipart types the builder is given
MsgTypes == {"Alternative", "Signed"}

\* the parts a node is given as children
ChildPool ==
    {TextPart(Token("p")), AlternativePart(Token("q"), Token("p"), Token("q"))}

MsgIdle == message = new_blank_message(<<>>) /\ pre_type = None /\ rendered = None

MsgInit ==
    /\ \E b \in BoundaryTokens : message = new_blank_message(b)
    /\ pre_type = None
    /\ rendered = None

\* update_headers() ran: PartBuilder::build has returned the node
updated == pre_type # None

Changed(msg) ==
    /\ ~updated
    /\ message' = msg
    /\ rendered' = None
    /\ UNCHANGED pre_type

PartHeader(h) ==
    /\ len(message.headers) < MaxMsgHeaders
    /\ Changed(PartBuilder_header(message, h))

PartReplaceHeader(h) ==
    /\ Changed(PartBuilder_replace_header(message, h))

PartBody(b) ==
    /\ Changed(PartBuilder_body(message, b))

PartMessageType(t) ==
    /\ Changed(PartBuilder_message_type(message, t))

PartChild(c) ==
    /\ Len(message.children) < MaxChildren
    /\ Changed(PartBuilder_child(message, c))

UpdateHeaders ==
    /\ ~updated
    /\ \E order \in UpdateOrders(message) :
           message' = update_headers(message, order)
    /\ pre_type' = Some(message.message_type)
    /\ rendered' = None

AsString ==
    /\ rendered = None
    /\ rendered' = Some(as_string(message))
    /\ UNCHANGED <<message, pre_type>>

(***************************************************************************)
(* address.rs: Mailbox, Address and the folding of an address list         *)
(***************************************************************************)
\* Result<T, E>
Ok(v) == [ok |-> TRUE, val |-> v, err |-> "none"]
Err(e) == [ok |-> FALSE, val |-> <<>>, err |-> e]

\* Mailbox::new
Mailbox_new(address) == [name |-> None, address |-> address]

\* Mailbox::new_with_name
Mailbox_new_with_name(name, address) == [name |-> Some(name), address |-> address]

\* Address::Mailbox(m); the variant holds its one mailbox in mboxes
Address_Mailbox(m) == [kind |-> "Mailbox", name |-> <<>>, mboxes |-> <<m>>]

\* Address::new_mailbox
Address_new_mailbox(address) == Address_Mailbox(Mailbox_new(address))

\* Address::new_group
Address_new_group(name, mailboxes) == [kind |-> "Group", name |-> name, mboxes |-> mailboxes]

\* char::is_ascii_alphanumeric
AsciiAlphanumeric ==
    {"a", "b", "c", "d", "e", "f", "g", "h", "i", "j", "k", "l", "m",
     "n", "o", "p", "q", "r", "s", "t", "u", "v", "w", "x", "y", "z",
     "A", "B", "C", "D", "E", "F", "G", "H", "I", "J", "K", "L", "M",
     "N", "O", "P", "Q", "R", "S", "T", "U", "V", "W", "X", "Y", "Z",
     "0", "1", "2", "3", "4", "5", "6", "7", "8", "9"}

\* the test of line 129
PlainName(name) == \A i \in 1..Len(name) : name[i] \in AsciiAlphanumeric \/ name[i] = SP

\* the two hexadecimal digits of the ASCII code of a character that the
\* Q encoding escapes
HexOf(c) ==
    CASE c = "," -> <<"2", "C">>
      [] c = "." -> <<"2", "E">>
      [] c = "<" -> <<"3", "C">>
      [] c = ">" -> <<"3", "E">>
      [] c = "@" -> <<"4", "0">>
      [] c = ":" -> <<"3", "A">>
      [] c = ";" -> <<"3", "B">>

\* the Q encoding of RFC 2047 of one character
QChar(c) ==
    IF c \in AsciiAlphanumeric
    THEN <<c>>
    ELSE IF c = SP THEN <<"_">> ELSE <<"=">> \o HexOf(c)

RECURSIVE QText(_)
QText(name) == IF name = <<>> THEN <<>> ELSE QChar(Head(name)) \o QText(Tail(name))

\* encoded_words::encode(name, None, EncodingFlag::Shortest, None) of the
\* external encoder, for a name whose Q form is not longer than its base64
\* form (4 characters for every 3 bytes), as test_escape_email_address has it
encoded_words_encode(name) ==
    <<"=", "?", "u", "t", "f", "-", "8", "?", "q", "?">> \o QText(name) \o <<"?", "=">>

\* Display for Mailbox
Mailbox_to_string(m) ==
    IF m.name # None
    THEN IF PlainName(m.name[1])
         THEN m.name[1] \o <<SP, "<">> \o m.address \o <<">">>
         ELSE encoded_words_encode(m.name[1]) \o <<SP, "<">> \o m.address \o <<">">>
    ELSE <<"<">> \o m.address \o <<">">>

\* the for loop of lines 85-91, from the mailbox at index i on
RECURSIVE MailboxList(_, _, _)
MailboxList(mailbox_list, mboxes, i) ==
    IF i > Len(mboxes)
    THEN mailbox_list
    ELSE MailboxList((IF mailbox_list # <<>> THEN mailbox_list \o <<",", SP>> ELSE mailbox_list)
                         \o Mailbox_to_string(mboxes[i]),
                     mboxes, i + 1)

Address_to_string_TrailingComma(a) ==
    IF a.kind = "Mailbox"
    THEN Mailbox_to_string(a.mboxes[1])
    ELSE a.name \o <<":", SP>> \o MailboxList(<<>>, a.mboxes, 1) \o <<",", ";">>
\* Display for Address
Address_to_string(a) ==
    IF a.kind = "Mailbox"
    THEN Mailbox_to_string(a.mboxes[1])
    ELSE a.name \o <<":", SP>> \o MailboxList(<<>>, a.mboxes, 1) \o <<";">>

\* the state of the loop of to_folded_header: the text so far and the counter
AddrFoldStart(start_pos) == [header |-> <<>>, line_len |-> start_pos]

AddrFoldStep_CounterKept(st, addr) ==
    LET addr_str == Address_to_string(addr) \o <<",", SP>>
        wrap == st.line_len + Len(addr_str) > MIME_LINE_LENGTH
        header == IF wrap THEN st.header \o CRLFTAB ELSE st.header
    IN  [header |-> header \o addr_str, line_len |-> st.line_len + Len(addr_str)]
AddrFoldStep_BreakAfter(st, addr) ==
    LET addr_str == Address_to_string(addr) \o <<",", SP>>
    IN  IF st.line_len + Len(addr_str) > MIME_LINE_LENGTH
        THEN [header |-> st.header \o Address_to_string(addr) \o CRLFTAB \o <<",", SP>>,
              line_len |-> Len(addr_str)]
        ELSE [header |-> st.header \o addr_str,
              line_len |-> st.line_len + Len(addr_str)]
\* one iteration of the for loop of lines 204-214
AddrFoldStep(st, addr) ==
    LET addr_str == Address_to_string(addr) \o <<",", SP>>
        wrap == st.line_len + Len(addr_str) > MIME_LINE_LENGTH
        header == IF wrap THEN st.header \o CRLFTAB ELSE st.header
        line_len == IF wrap THEN 0 ELSE st.line_len
    IN  [header |-> header \o addr_str, line_len |-> line_len + Len(addr_str)]

RECURSIVE AddrFoldLoop(_, _, _)
AddrFoldLoop(st, value, i) ==
    IF i > Len(value)
    THEN st
    ELSE AddrFoldLoop(AddrFoldStep(st, value[i]), value, i + 1)

to_folded_header_EmptyValue(start_pos, value) ==
    LET header == AddrFoldLoop(AddrFoldStart(start_pos), value, 1).header
    IN  Ok(SubSeq(header, 1, Len(header) - 2))
\* ToFoldedHeader for Vec<Address>::to_folded_header
to_folded_header(start_pos, value) ==
    IF value = <<>>
    THEN Err("EmtpyHeader")
    ELSE LET header == AddrFoldLoop(AddrFoldStart(start_pos), value, 1).header
         IN  Ok(SubSeq(header, 1, Len(header) - 2))

\* Header::new_with_value for a Vec<Address>
Header_new_with_addresses(name, value) ==
    LET header_len == Len(name) + 2
        val == to_folded_header(header_len, value)
    IN  IF val.ok THEN Ok(Header_new(name, val.val)) ELSE val

(***************************************************************************)
(* The address model as a state machine: a list of addresses and a header  *)
(* name are drawn, then the addresses are rendered and the list is made a  *)
(* header.                                                                 *)
(***************************************************************************)
AddrJoe == <<"j", "o", "e", "@", "e", "x", "a", "m", "p", "l", "e", ".", "o", "r", "g">>
AddrA == <<"a", "@", "x", ".", "o", "r", "g">>
AddrB == <<"b", "@", "x", ".", "o", "r", "g">>
NameJoeBlogs == <<"J", "o", "e", " ", "B", "l", "o", "g", "s">>
NameDoeJ == <<"D", "o", "e", ",", " ", "J", " ", "Q">>
NameGroup == <<"g", "r", "o", "u", "p", " ", "t", "e", "s", "t">>
NameUndisclosed == <<"u", "n", "d", "i", "s", "c", "l", "o", "s", "e", "d", " ", "r", "e", "c", "i", "p", "i", "e", "n", "t", "s">>
NameReplyTo == <<"R", "e", "p", "l", "y", "-", "T", "o">>
NameLong == Word(70)

MailboxPool ==
    {Mailbox_new(AddrA),
     Mailbox_new_with_name(NameJoeBlogs, AddrJoe),
     Mailbox_new_with_name(NameDoeJ, AddrB),
     Mailbox_new_with_name(NameLong, AddrA)}

AddressPool ==
    {Address_Mailbox(m) : m \in MailboxPool}
        \cup {Address_new_group(NameUndisclosed, <<>>),
              Address_new_group(NameGroup,
                                <<Mailbox_new(AddrJoe),
                                  Mailbox_new_with_name(NameJoeBlogs, AddrJoe)>>)}

\* the names of the headers that take an address list
AddrHeaderNames == {NameTo, NameReplyTo}

AddrIdle == addrs = <<>> /\ addr_name = <<>> /\ shown = None /\ folded = None

AddrInit ==
    /\ \E n \in 0..MaxAddrs : addrs \in [1..n -> AddressPool]
    /\ addr_name \in AddrHeaderNames
    /\ shown = None
    /\ folded = None

\* to_string() of every address of the list
AddressToString ==
    /\ shown = None
    /\ shown' = Some([i \in 1..Len(addrs) |-> Address_to_string(addrs[i])])
    /\ UNCHANGED <<addrs, addr_name, folded>>

\* Header::new_with_value(name, addrs)
NewWithValue ==
    /\ folded = None
    /\ folded' = Some(Header_new_with_addresses(addr_name, addrs))
    /\ UNCHANGED <<addrs, addr_name, shown>>

(***************************************************************************)
(* email.rs: Envelope; email_builder.rs: EmailBuilder                      *)
(***************************************************************************)
NameSender == <<"S", "e", "n", "d", "e", "r">>
NameFrom == <<"F", "r", "o", "m">>
NameCc == <<"C", "c">>
NameInReplyTo == <<"I", "n", "-", "R", "e", "p", "l", "y", "-", "T", "o">>
NameReferences == <<"R", "e", "f", "e", "r", "e", "n", "c", "e", "s">>
NameDate == <<"D", "a", "t", "e">>
NameSubject == <<"S", "u", "b", "j", "e", "c", "t">>
ValueSubject == <<"H", "e", "l", "l", "o">>
DateGiven == <<"T", "u", "e", ",", " ", "0", "3", " ", "N", "o", "v", " ", "2", "0", "2", "6", " ", "0", "9", ":", "3", "0", ":", "0", "0", " ", "+", "0", "0", "0", "0">>
IdGiven == <<"m", "y", "-", "s", "h", "i", "n", "y", "-", "i", "d">>
IdOriginal == <<"o", "r", "i", "g", "i", "n", "a", "l">>
NameMimeVersion == <<"M", "I", "M", "E", "-", "V", "e", "r", "s", "i", "o", "n">>
ValueMimeVersion == <<"1", ".", "0">>
NameMessageId == <<"M", "e", "s", "s", "a", "g", "e", "-", "I", "D">>
LettreAtLocalhost == <<".", "l", "e", "t", "t", "r", "e", "@", "l", "o", "c", "a", "l", "h", "o", "s", "t">>
DateNow == <<"W", "e", "d", ",", " ", "0", "4", " ", "N", "o", "v", " ", "2", "0", "2", "6", " ", "1", "0", ":", "0", "0", ":", "0", "0", " ", "+", "0", "0", "0", "0">>
UuidNew == <<"0", "a", "1", "b", "2", "c", "3", "d", "-", "u", "u", "i", "d">>

Envelope_new_Unchecked(from, to) == Ok([forward_path |-> to, reverse_path |-> from])
\* Envelope::new
Envelope_new(from, to) ==
    IF to = <<>>
    THEN Err("MissingTo")
    ELSE Ok([forward_path |-> to, reverse_path |-> from])

\* mailparse::addrparse accepts the text as one address: the modelled
\* addresses are bare addr-specs
ParsesAsOneAddress(val) ==
    /\ \E i \in 2..(Len(val) - 1) : val[i] = "@"
    /\ \A i \in 1..Len(val) : val[i] \notin {SP, ",", "<", ">", ":", ";"}

\* Address::from_str as build uses it: the parsed address as the Envelope
\* keeps it, the address text (email.rs 19, 48-52), or the parser's error
Address_from_str(val) == IF ParsesAsOneAddress(val) THEN Ok(val) ELSE Err("Address")

\* Display of an address of the Envelope
EmailAddress_to_string(a) == a

\* EmailBuilder::new, with the boundary the random source gave
EmailBuilder_new(b) ==
    [message |-> new_blank_message(b),
     to |-> <<>>, from |-> <<>>, cc |-> <<>>, bcc |-> <<>>, reply_to |-> <<>>,
     in_reply_to |-> <<>>, references |-> <<>>,
     sender |-> None, envelope |-> None,
     date_issued |-> FALSE, message_id |-> None]

\* EmailBuilder::to, from, cc, bcc, reply_to: the mailbox is pushed as an Address::Mailbox
EmailBuilder_to(eb, mailbox) == [eb EXCEPT !.to = Append(@, Address_Mailbox(mailbox))]
EmailBuilder_from(eb, mailbox) == [eb EXCEPT !.from = Append(@, Address_Mailbox(mailbox))]
EmailBuilder_cc(eb, mailbox) == [eb EXCEPT !.cc = Append(@, Address_Mailbox(mailbox))]
EmailBuilder_bcc(eb, mailbox) == [eb EXCEPT !.bcc = Append(@, Address_Mailbox(mailbox))]
EmailBuilder_reply_to(eb, mailbox) == [eb EXCEPT !.reply_to = Append(@, Address_Mailbox(mailbox))]

\* EmailBuilder::sender
EmailBuilder_sender(eb, mailbox) == [eb EXCEPT !.sender = Some(mailbox)]

\* EmailBuilder::envelope
EmailBuilder_envelope(eb, envelope) == [eb EXCEPT !.envelope = Some(envelope)]

\* EmailBuilder::body
EmailBuilder_body(eb, body) == [eb EXCEPT !.message = PartBuilder_body(@, body)]

\* EmailBuilder::header
EmailBuilder_header(eb, header) == [eb EXCEPT !.message = PartBuilder_header(@, header)]

\* EmailBuilder::replace_header
EmailBuilder_replace_header(eb, header) ==
    [eb EXCEPT !.message = PartBuilder_replace_header(@, header)]

\* EmailBuilder::in_reply_to
EmailBuilder_in_reply_to(eb, message_id) == [eb EXCEPT !.in_reply_to = Append(@, message_id)]

\* EmailBuilder::references
EmailBuilder_references(eb, message_id) == [eb EXCEPT !.references = Append(@, message_id)]

\* EmailBuilder::subject
EmailBuilder_subject(eb, subject) ==
    [eb EXCEPT !.message = PartBuilder_header(@, Header_new(NameSubject, subject))]

\* EmailBuilder::date, with the date as RFC822Z_TIME_FORMAT formats it
EmailBuilder_date(eb, date) ==
    [eb EXCEPT !.message = PartBuilder_header(@, Header_new(NameDate, date)),
               !.date_issued = TRUE]

\* EmailBuilder::message_id
EmailBuilder_message_id(eb, id) ==
    [eb EXCEPT !.message = PartBuilder_header(@, Header_new(NameMessageId, id)),
               !.message_id = Some(id)]

\* the for loop of lines 369-375: the first Address::Mailbox of from, if any
FirstMailbox(from) ==
    LET S == {i \in 1..Len(from) : from[i].kind = "Mailbox"}
    IN  IF S = {} THEN None ELSE Some(from[SetMin(S)].mboxes[1])

InferSender_Never(eb) == eb

InferSender_LastMailbox(eb) ==
    IF Len(eb.from) >= 2 /\ eb.sender = None
    THEN [eb EXCEPT !.sender = Some(eb.from[Len(eb.from)].mboxes[1])]
    ELSE eb
\* lines 367-380: with two or more From entries a Sender is needed
InferSender(eb) ==
    IF Len(eb.from) >= 2 /\ eb.sender = None
    THEN [eb EXCEPT !.sender = FirstMailbox(eb.from)]
    ELSE eb

\* the assertion of line 379 fails
SenderAssertFails(eb) ==
    Len(eb.from) >= 2 /\ eb.sender = None /\ FirstMailbox(eb.from) = None

\* lines 382-384: the Sender header
AddSender(eb) ==
    IF eb.sender # None
    THEN [eb EXCEPT !.message =
              PartBuilder_header(@, Header_new(NameSender, Mailbox_to_string(eb.sender[1])))]
    ELSE eb

\* the mailboxes of the receivers in order, every group replaced by its members
RECURSIVE ReceiverMailboxes(_)
ReceiverMailboxes(rs) ==
    IF rs = <<>>
    THEN <<>>
    ELSE Head(rs).mboxes \o ReceiverMailboxes(Tail(rs))

\* the for loop of lines 392-401 over the mailboxes ms from index i on: the
\* addresses pushed so far, or the first error of the parser
RECURSIVE ParseReceivers(_, _, _)
ParseReceivers(to, ms, i) ==
    IF i > Len(ms)
    THEN Ok(to)
    ELSE LET a == Address_from_str(ms[i].address)
         IN  IF a.ok THEN ParseReceivers(Append(to, a.val), ms, i + 1) ELSE a

ForwardPath_WithoutBcc(eb) ==
    ParseReceivers(<<>>, ReceiverMailboxes(eb.to \o eb.cc), 1)
\* lines 390-401: all receivers of to, cc and bcc
ForwardPath(eb) ==
    ParseReceivers(<<>>, ReceiverMailboxes(eb.to \o eb.cc \o eb.bcc), 1)

ReversePathText_FromFirst(eb) ==
    IF eb.from # <<>>
    THEN IF eb.from[1].mboxes # <<>>
         THEN Ok(eb.from[1].mboxes[1].address)
         ELSE Err("MissingFrom")
    ELSE IF eb.sender # None THEN Ok(eb.sender[1].address) ELSE Err("MissingFrom")
\* the match of lines 402-422: the text of the envelope sender
ReversePathText(eb) ==
    IF eb.sender # None
    THEN Ok(eb.sender[1].address)
    ELSE IF eb.from # <<>>
         THEN IF eb.from[1].mboxes # <<>>
              THEN Ok(eb.from[1].mboxes[1].address)
              ELSE Err("MissingFrom")
         ELSE Err("MissingFrom")

CalculateEnvelope_AlwaysGenerated(eb) ==
    LET to == ForwardPath(eb)
        ft == ReversePathText(eb)
    IN  IF ~to.ok THEN to
        ELSE IF ~ft.ok THEN ft
        ELSE LET from == Address_from_str(ft.val)
             IN  IF ~from.ok THEN from
                 ELSE Envelope_new(Some(from.val), to.val)
\* lines 386-425: the envelope given, or the one generated
CalculateEnvelope(eb) ==
    IF eb.envelope # None
    THEN Ok(eb.envelope[1])
    ELSE LET to == ForwardPath(eb)
             ft == ReversePathText(eb)
         IN  IF ~to.ok THEN to
             ELSE IF ~ft.ok THEN ft
             ELSE LET from == Address_from_str(ft.val)
                  IN  IF ~from.ok THEN from
                      ELSE Envelope_new(Some(from.val), to.val)

\* message.header(Header::new_with_value(name, list).unwrap()) for a list
\* that is not empty
AddAddressHeader(msg, name, list) ==
    PartBuilder_header(msg, Header_new_with_addresses(name, list).val)

\* lines 428-432
AddTo(eb) ==
    IF eb.to # <<>> THEN [eb EXCEPT !.message = AddAddressHeader(@, NameTo, eb.to)] ELSE eb

\* lines 433-444, the cases in which a From header is added
FromMissing(eb, envelope) == eb.from = <<>> /\ envelope.reverse_path = None

AddFrom_OnlyGiven(eb, envelope) ==
    IF eb.from # <<>>
    THEN [eb EXCEPT !.message = AddAddressHeader(@, NameFrom, eb.from)]
    ELSE eb
AddFrom(eb, envelope) ==
    IF eb.from # <<>>
    THEN [eb EXCEPT !.message = AddAddressHeader(@, NameFrom, eb.from)]
    ELSE [eb EXCEPT !.message =
              AddAddressHeader(@, NameFrom,
                  <<Address_new_mailbox(EmailAddress_to_string(envelope.reverse_path[1]))>>)]

AddCc_WithBcc(eb) ==
    IF eb.cc \o eb.bcc # <<>>
    THEN [eb EXCEPT !.message = AddAddressHeader(@, NameCc, eb.cc \o eb.bcc)]
    ELSE eb
\* lines 445-454
AddCc(eb) ==
    IF eb.cc # <<>> THEN [eb EXCEPT !.message = AddAddressHeader(@, NameCc, eb.cc)] ELSE eb

AddReplyTo(eb) ==
    IF eb.reply_to # <<>>
    THEN [eb EXCEPT !.message = AddAddressHeader(@, NameReplyTo, eb.reply_to)]
    ELSE eb

\* Vec<String>::join(" ")
RECURSIVE JoinSpace(_)
JoinSpace(ids) ==
    IF ids = <<>> THEN <<>>
    ELSE IF Len(ids) = 1 THEN ids[1]
         ELSE ids[1] \o <<SP>> \o JoinSpace(Tail(ids))

\* lines 455-464
AddInReplyTo(eb) ==
    IF eb.in_reply_to # <<>>
    THEN [eb EXCEPT !.message =
              PartBuilder_header(@, Header_new_with_value(NameInReplyTo, JoinSpace(eb.in_reply_to)))]
    ELSE eb

AddReferences(eb) ==
    IF eb.references # <<>>
    THEN [eb EXCEPT !.message =
              PartBuilder_header(@, Header_new_with_value(NameReferences, JoinSpace(eb.references)))]
    ELSE eb

\* lines 466-471, with the formatted local time the clock gave
AddDate(eb, now) ==
    IF ~eb.date_issued
    THEN [eb EXCEPT !.message = PartBuilder_header(@, Header_new(NameDate, now))]
    ELSE eb

\* line 473
AddMimeVersion(eb) ==
    [eb EXCEPT !.message = PartBuilder_header(@, Header_new(NameMimeVersion, ValueMimeVersion))]

AddMessageId_Always(eb, uuid) ==
    [eb EXCEPT !.message =
         PartBuilder_header(@, Header_new(NameMessageId,
                                          <<"<">> \o uuid \o LettreAtLocalhost \o <<">">>))]
\* lines 475-484, with the identifier Uuid::new_v4 gave
AddMessageId(eb, uuid) ==
    IF eb.message_id # None
    THEN eb
    ELSE [eb EXCEPT !.message =
              PartBuilder_header(@, Header_new(NameMessageId,
                                               <<"<">> \o uuid \o LettreAtLocalhost \o <<">">>))]

MessageIdOf(eb, uuid) == IF eb.message_id # None THEN eb.message_id[1] ELSE uuid

\* lines 426-491: the headers, then the message is built and serialized
Finish(eb, envelope, now, uuid, order) ==
    LET e1 == AddFrom(AddTo(eb), envelope)
        e2 == AddInReplyTo(AddReplyTo(AddCc(e1)))
        e3 == AddMessageId(AddMimeVersion(AddDate(AddReferences(e2), now)), uuid)
    IN  Ok([message |-> as_string(update_headers(e3.message, order)),
            envelope |-> envelope,
            message_id |-> MessageIdOf(eb, uuid)])

\* the debug assertion of line 406 fails: the envelope is generated for a
\* builder without sender that holds more than one From entry
FromAssertFails(eb) ==
    eb.envelope = None /\ eb.sender = None /\ Len(eb.from) > 1

\* EmailBuilder::build; a failed assertion ends the call with a panic
EmailBuilder_build(eb, now, uuid, order) ==
    IF SenderAssertFails(eb)
    THEN Err("panic")
    ELSE LET e0 == AddSender(InferSender(eb))
             env == CalculateEnvelope(e0)
         IN  IF FromAssertFails(e0) /\ ForwardPath(e0).ok THEN Err("panic")
             ELSE IF ~env.ok THEN env
             ELSE IF FromMissing(e0, env.val) THEN Err("MissingFrom")
             ELSE Finish(e0, env.val, now, uuid, order)

(***************************************************************************)
(* The EmailBuilder as a state machine: the builder's operations are       *)
(* called in any order, then build consumes the builder.                   *)
(***************************************************************************)
\* the mailboxes the builder is given
BuilderMailboxes == {Mailbox_new(AddrA), Mailbox_new_with_name(NameJoeBlogs, AddrJoe)}

\* the envelopes the builder is given: Envelope::new made them
BuilderEnvelopes ==
    {Envelope_new(Some(AddrB), <<AddrB>>).val, Envelope_new(None, <<AddrB, AddrA>>).val}

\* mailboxes for long address lists: the second one, rendered with its
\* ', ', fills a To or Cc line up to column 78
ListMailboxes == {Mailbox_new(AddrA), Mailbox_new_with_name(Word(62), AddrA)}

\* the one mailbox the composing calls are given
ComposeMailbox == Mailbox_new(AddrB)

\* the headers header() and replace_header() are given
ComposeHeaders == {Header_new(NameContentType, ValueHello)}
ComposeReplacements == {Header_new(NameContentType, ValueWorld)}

\* the number of addresses the builder holds
Entries(eb) == Len(eb.to) + Len(eb.from) + Len(eb.cc) + Len(eb.bcc) + Len(eb.reply_to)

BuildIdle == email_builder = EmailBuilder_new(<<>>) /\ email = None /\ added = <<>>

BuildInit ==
    /\ \E b \in BoundaryTokens : email_builder = EmailBuilder_new(b)
    /\ email = None
    /\ added = <<>>

\* a builder operation: the builder is there as long as build did not consume it
Chained(eb) ==
    /\ email = None
    /\ email_builder' = eb
    /\ UNCHANGED <<email, added>>

BuilderTo(m) == Entries(email_builder) < MaxEntries /\ Chained(EmailBuilder_to(email_builder, m))
BuilderFrom(m) == Entries(email_builder) < MaxEntries /\ Chained(EmailBuilder_from(email_builder, m))
BuilderCc(m) == Entries(email_builder) < MaxEntries /\ Chained(EmailBuilder_cc(email_builder, m))
BuilderBcc(m) == Entries(email_builder) < MaxEntries /\ Chained(EmailBuilder_bcc(email_builder, m))
BuilderReplyTo(m) == Entries(email_builder) < MaxEntries /\ Chained(EmailBuilder_reply_to(email_builder, m))
BuilderSender(m) == Chained(EmailBuilder_sender(email_builder, m))
BuilderEnvelope(e) == Chained(EmailBuilder_envelope(email_builder, e))

\* the number of entries the calls have put into the builder
Held(eb) ==
    Entries(eb) + Len(eb.in_reply_to) + Len(eb.references) + Len(added)

\* a builder operation that sets the header named name at once
ChainedHeader(eb, name) ==
    /\ email = None
    /\ Held(email_builder) < MaxCalls
    /\ email_builder' = eb
    /\ added' = Append(added, name)
    /\ UNCHANGED email

\* a builder operation of the composing calls that sets no header at once
ChainedEntry(eb) == Held(email_builder) < MaxCalls /\ Chained(eb)

ComposeSubject == ChainedHeader(EmailBuilder_subject(email_builder, ValueSubject), NameSubject)
ComposeDate == ChainedHeader(EmailBuilder_date(email_builder, DateGiven), NameDate)
ComposeMessageId == ChainedHeader(EmailBuilder_message_id(email_builder, IdGiven), NameMessageId)
ComposeHeader(h) == ChainedHeader(EmailBuilder_header(email_builder, h), h.name)

\* replace_header: the header named as h that was set first is replaced
\* where it stands and the later ones of the name are gone, and h is put
\* last when none was set
ComposeReplaceHeader(h) ==
    /\ email = None
    /\ Held(email_builder) < MaxCalls \/ \E i \in 1..Len(added) : added[i] = h.name
    /\ email_builder' = EmailBuilder_replace_header(email_builder, h)
    /\ added' = IF \E i \in 1..Len(added) : added[i] = h.name
                THEN LET first == SetMin({i \in 1..Len(added) : added[i] = h.name})
                     IN  SubSeq(added, 1, first)
                             \o SelectSeq(SubSeq(added, first + 1, Len(added)),
                                          LAMBDA n : n # h.name)
                ELSE Append(added, h.name)
    /\ UNCHANGED email

ComposeInReplyTo == ChainedEntry(EmailBuilder_in_reply_to(email_builder, IdOriginal))
ComposeReferences == ChainedEntry(EmailBuilder_references(email_builder, IdOriginal))
ComposeTo == ChainedEntry(EmailBuilder_to(email_builder, ComposeMailbox))
ComposeFrom == ChainedEntry(EmailBuilder_from(email_builder, ComposeMailbox))
ComposeCc == ChainedEntry(EmailBuilder_cc(email_builder, ComposeMailbox))
ComposeReplyTo == ChainedEntry(EmailBuilder_reply_to(email_builder, ComposeMailbox))
ComposeSender == Chained(EmailBuilder_sender(email_builder, ComposeMailbox))

Build ==
    /\ email = None
    /\ \E order \in UpdateOrders(email_builder.message) :
           email' = Some(EmailBuilder_build(email_builder, DateNow, UuidNew, order))
    /\ UNCHANGED <<email_builder, added>>

(***************************************************************************)
(* A multipart node made with extra content-type parameters.               *)
(***************************************************************************)
\* the extra parameters a node is given: key and value
ParamCharset == <<"c", "h", "a", "r", "s", "e", "t">>
ParamProtocol == <<"p", "r", "o", "t", "o", "c", "o", "l">>
ParamMicalg == <<"m", "i", "c", "a", "l", "g">>
ParamValue ==
    (ParamCharset :> <<"u", "t", "f", "-", "8">>)
        @@ (ParamProtocol :> <<"p", "g", "p">>)
        @@ (ParamMicalg :> <<"s", "h", "a", "1">>)

\* the values message_type_params is given: None, or a map of at most
\* MaxParams of the extra parameters
ParamMaps ==
    {None} \cup {Some([k \in S |-> ParamValue[k]]) :
                    S \in {T \in SUBSET (DOMAIN ParamValue) : Cardinality(T) <= MaxParams}}

NewWithBoundaryAndParams(t, b, p) ==
    /\ ~updated
    /\ \E order \in IterOrders(ParamsInsert(IF p = None THEN EmptyParams ELSE p[1],
                                             StrBoundary, b)) :
           message' = new_with_boundary_and_params(<<>>, t, <<>>, b, p, order)
    /\ pre_type' = Some(Some(t))
    /\ rendered' = None

(***************************************************************************)
(* PartBuilder::body as a state machine: body() is called with any text,   *)
(* and again with the body the node then holds.                            *)
(***************************************************************************)
BodyChars == {"a", CR, LF}

\* the texts body() is given
Bodies == UNION {[1..n -> BodyChars] : n \in 0..MaxBodyLen}

Body(b) ==
    /\ body_arg = None
    /\ message' = PartBuilder_body(message, b)
    /\ body_arg' = Some(b)
    /\ UNCHANGED <<pre_type, rendered, mtype, ctype, parsed>>

BodyAgain ==
    /\ body_arg # None
    /\ message' = PartBuilder_body(message, message.body)
    /\ body_arg' = Some(message.body)
    /\ UNCHANGED <<pre_type, rendered, mtype, ctype, parsed>>

(***************************************************************************)
(* The conversions between MimeMultipartType and MimeContentType.          *)
(***************************************************************************)
\* the major and minor types the conversions are tried on
Majors ==
    {StrMultipart, <<"M", "u", "l", "t", "i", "p", "a", "r", "t">>, <<"t", "e", "x", "t">>,
     <<"i", "m", "a", "g", "e">>, <<"m", "e", "s", "s", "a", "g", "e">>, <<>>}
Minors ==
    {to_content_type(t)[2] : t \in MultipartTypes}
        \cup {<<"p", "o", "t", "a", "t", "o">>, <<"p", "l", "a", "i", "n">>,
              <<"M", "i", "x", "e", "d">>, <<>>}

TypeInit ==
    /\ mtype = None
    /\ ctype \in Majors \X Minors
    /\ parsed = None
    /\ body_arg = None

ToContentType(t) ==
    /\ mtype' = Some(t)
    /\ ctype' = to_content_type(t)
    /\ parsed' = None
    /\ UNCHANGED body_arg

FromContentType ==
    /\ parsed = None
    /\ parsed' = Some(from_content_type(ctype))
    /\ UNCHANGED <<mtype, ctype, body_arg>>

(***************************************************************************)
(* Specifications.  Each component is exercised by its own specification;  *)
(* the variables of the other components stay idle.                        *)
(***************************************************************************)
FoldIdle == text = <<>> /\ result = <<>> /\ fpc = "idle"

CallIdle == body_arg = None /\ mtype = None /\ ctype = <<>> /\ parsed = None

InitFold == FoldInit /\ MapInit /\ MsgIdle /\ AddrIdle /\ BuildIdle /\ CallIdle

NextFold == EmitFolded /\ UNCHANGED <<mapVars, msgVars, addrVars, buildVars, callVars>>

SpecFold == InitFold /\ [][NextFold]_vars

InitMap == MapInit /\ FoldIdle /\ MsgIdle /\ AddrIdle /\ BuildIdle /\ CallIdle

NextMap ==
    \/ \E h \in MapHeaders : Insert(h) /\ UNCHANGED <<foldVars, msgVars, addrVars, buildVars, callVars>>
    \/ \E h \in MapHeaders : Replace(h) /\ UNCHANGED <<foldVars, msgVars, addrVars, buildVars, callVars>>
    \/ Iter /\ UNCHANGED <<foldVars, msgVars, addrVars, buildVars, callVars>>
    \/ IterNext /\ UNCHANGED <<foldVars, msgVars, addrVars, buildVars, callVars>>
    \/ IterEnd /\ UNCHANGED <<foldVars, msgVars, addrVars, buildVars, callVars>>

SpecMap == InitMap /\ [][NextMap]_vars

InitMsg == MsgInit /\ FoldIdle /\ MapInit /\ AddrIdle /\ BuildIdle /\ CallIdle

NextMsg ==
    \/ \E h \in MsgHeaders : PartHeader(h) /\ UNCHANGED <<foldVars, mapVars, addrVars, buildVars, callVars>>
    \/ \E h \in MsgHeaders : PartReplaceHeader(h) /\ UNCHANGED <<foldVars, mapVars, addrVars, buildVars, callVars>>
    \/ \E b \in MsgBodies : PartBody(b) /\ UNCHANGED <<foldVars, mapVars, addrVars, buildVars, callVars>>
    \/ \E t \in MsgTypes : PartMessageType(t) /\ UNCHANGED <<foldVars, mapVars, addrVars, buildVars, callVars>>
    \/ \E c \in ChildPool : PartChild(c) /\ UNCHANGED <<foldVars, mapVars, addrVars, buildVars, callVars>>
    \/ UpdateHeaders /\ UNCHANGED <<foldVars, mapVars, addrVars, buildVars, callVars>>
    \/ AsString /\ UNCHANGED <<foldVars, mapVars, addrVars, buildVars, callVars>>

SpecMsg == InitMsg /\ [][NextMsg]_vars

InitAddr == AddrInit /\ FoldIdle /\ MapInit /\ MsgIdle /\ BuildIdle /\ CallIdle

NextAddr ==
    \/ AddressToString /\ UNCHANGED <<foldVars, mapVars, msgVars, buildVars, callVars>>
    \/ NewWithValue /\ UNCHANGED <<foldVars, mapVars, msgVars, buildVars, callVars>>

SpecAddr == InitAddr /\ [][NextAddr]_vars

InitBuild == BuildInit /\ FoldIdle /\ MapInit /\ MsgIdle /\ AddrIdle /\ CallIdle

NextBuild ==
    \/ \E m \in BuilderMailboxes : BuilderTo(m) /\ UNCHANGED <<foldVars, mapVars, msgVars, addrVars, callVars>>
    \/ \E m \in BuilderMailboxes : BuilderFrom(m) /\ UNCHANGED <<foldVars, mapVars, msgVars, addrVars, callVars>>
    \/ \E m \in BuilderMailboxes : BuilderCc(m) /\ UNCHANGED <<foldVars, mapVars, msgVars, addrVars, callVars>>
    \/ \E m \in BuilderMailboxes : BuilderBcc(m) /\ UNCHANGED <<foldVars, mapVars, msgVars, addrVars, callVars>>
    \/ \E m \in BuilderMailboxes : BuilderReplyTo(m) /\ UNCHANGED <<foldVars, mapVars, msgVars, addrVars, callVars>>
    \/ \E m \in BuilderMailboxes : BuilderSender(m) /\ UNCHANGED <<foldVars, mapVars, msgVars, addrVars, callVars>>
    \/ \E e \in BuilderEnvelopes : BuilderEnvelope(e) /\ UNCHANGED <<foldVars, mapVars, msgVars, addrVars, callVars>>
    \/ Build /\ UNCHANGED <<foldVars, mapVars, msgVars, addrVars, callVars>>

SpecBuild == InitBuild /\ [][NextBuild]_vars

NextCompose ==
    \/ ComposeSubject /\ UNCHANGED <<foldVars, mapVars, msgVars, addrVars, callVars>>
    \/ ComposeDate /\ UNCHANGED <<foldVars, mapVars, msgVars, addrVars, callVars>>
    \/ ComposeMessageId /\ UNCHANGED <<foldVars, mapVars, msgVars, addrVars, callVars>>
    \/ \E h \in ComposeHeaders : ComposeHeader(h) /\ UNCHANGED <<foldVars, mapVars, msgVars, addrVars, callVars>>
    \/ \E h \in ComposeReplacements : ComposeReplaceHeader(h) /\ UNCHANGED <<foldVars, mapVars, msgVars, addrVars, callVars>>
    \/ ComposeInReplyTo /\ UNCHANGED <<foldVars, mapVars, msgVars, addrVars, callVars>>
    \/ ComposeReferences /\ UNCHANGED <<foldVars, mapVars, msgVars, addrVars, callVars>>
    \/ ComposeTo /\ UNCHANGED <<foldVars, mapVars, msgVars, addrVars, callVars>>
    \/ ComposeFrom /\ UNCHANGED <<foldVars, mapVars, msgVars, addrVars, callVars>>
    \/ ComposeCc /\ UNCHANGED <<foldVars, mapVars, msgVars, addrVars, callVars>>
    \/ ComposeReplyTo /\ UNCHANGED <<foldVars, mapVars, msgVars, addrVars, callVars>>
    \/ ComposeSender /\ UNCHANGED <<foldVars, mapVars, msgVars, addrVars, callVars>>
    \/ Build /\ UNCHANGED <<foldVars, mapVars, msgVars, addrVars, callVars>>

SpecCompose == InitBuild /\ [][NextCompose]_vars

NextLists ==
    \/ \E m \in ListMailboxes : BuilderTo(m) /\ UNCHANGED <<foldVars, mapVars, msgVars, addrVars, callVars>>
    \/ \E m \in ListMailboxes : BuilderFrom(m) /\ UNCHANGED <<foldVars, mapVars, msgVars, addrVars, callVars>>
    \/ \E m \in ListMailboxes : BuilderCc(m) /\ UNCHANGED <<foldVars, mapVars, msgVars, addrVars, callVars>>
    \/ \E m \in ListMailboxes : BuilderReplyTo(m) /\ UNCHANGED <<foldVars, mapVars, msgVars, addrVars, callVars>>
    \/ Build /\ UNCHANGED <<foldVars, mapVars, msgVars, addrVars, callVars>>

SpecLists == InitBuild /\ [][NextLists]_vars

NextParams ==
    \/ \E t \in MultipartTypes : \E b \in BoundaryTokens : \E p \in ParamMaps :
           NewWithBoundaryAndParams(t, b, p)
               /\ UNCHANGED <<foldVars, mapVars, addrVars, buildVars, callVars>>
    \/ UpdateHeaders /\ UNCHANGED <<foldVars, mapVars, addrVars, buildVars, callVars>>

SpecParams == InitMsg /\ [][NextParams]_vars

InitBody == MsgInit /\ FoldIdle /\ MapInit /\ AddrIdle /\ BuildIdle /\ CallIdle

NextBody ==
    \/ \E b \in Bodies : Body(b) /\ UNCHANGED <<foldVars, mapVars, addrVars, buildVars>>
    \/ BodyAgain /\ UNCHANGED <<foldVars, mapVars, addrVars, buildVars>>

SpecBody == InitBody /\ [][NextBody]_vars

InitType == TypeInit /\ FoldIdle /\ MapInit /\ MsgIdle /\ AddrIdle /\ BuildIdle

NextType ==
    \/ \E t \in MultipartTypes : ToContentType(t) /\ UNCHANGED <<foldVars, mapVars, msgVars, addrVars, buildVars>>
    \/ FromContentType /\ UNCHANGED <<foldVars, mapVars, msgVars, addrVars, buildVars>>

SpecType == InitType /\ [][NextType]_vars

(***************************************************************************)
(* Properties of the line folder.                                          *)
(***************************************************************************)

\* the positions at which a CRLF starts in s, from position from on
CRLFsFrom(s, from) == {i \in from..(Len(s) - 1) : s[i] = CR /\ s[i + 1] = LF}

\* the lines of s, delimited by CRLF
RECURSIVE LinesFrom(_, _)
LinesFrom(s, start) ==
    IF CRLFsFrom(s, start) = {}
    THEN <<SubSeq(s, start, Len(s))>>
    ELSE LET i == SetMin(CRLFsFrom(s, start))
         IN  <<SubSeq(s, start, i - 1)>> \o LinesFrom(s, i + 2)

Lines(s) == LinesFrom(s, 1)

\* a line has a space at which it could have been broken: one with a word
\* before it and a word after it in the line
Breakable(line) ==
    \E i \in 2..(Len(line) - 1) :
        /\ line[i] = SP
        /\ \E j \in 1..(i - 1) : line[j] \notin {SP, TAB}
        /\ \E j \in (i + 1)..Len(line) : line[j] \notin {SP, TAB}

WithinLimit(s) ==
    LET ls == Lines(s)
    IN  \A k \in 1..Len(ls) : Len(ls[k]) <= MIME_LINE_LENGTH

\* C1: every line of fold's output (lines delimited by CRLF, the tab of a
\* continuation line counted as one column) is at most 78 columns long unless
\* it contains no space at which it could have been broken.
C1_FoldedLinesWithinLimit ==
    fpc = "done" =>
        LET ls == Lines(result)
        IN  \A k \in 1..Len(ls) :
                Len(ls[k]) <= MIME_LINE_LENGTH \/ ~Breakable(ls[k])

\* s from position from on (1-based), with the characters at the positions
\* of S replaced by CRLF + tab each
RECURSIVE BreakAt(_, _, _)
BreakAt(s, from, S) ==
    IF S = {}
    THEN SubSeq(s, from, Len(s))
    ELSE LET p == SetMin(S)
         IN  SubSeq(s, from, p - 1) \o CRLFTAB \o BreakAt(s, p + 1, S \ {p})

SpacePositions(s) == {i \in 1..Len(s) : s[i] = SP}

\* C2: fold never alters content: fold(text) is text with some of its single
\* spaces replaced by CRLF + one tab, so putting one space back for every
\* inserted CRLF + tab gives text again; nothing else is added, dropped or
\* reordered.
C2_FoldPreservesContent ==
    fpc = "done" =>
        \E S \in SUBSET SpacePositions(text) :
            /\ Len(result) = Len(text) + 2 * Cardinality(S)
            /\ result = BreakAt(text, 1, S)

\* C2 witness: a text that was folded at two places
C2_FoldedTwice == fpc = "done" /\ Len(result) = Len(text) + 4

\* C3: a text whose every line is at most 78 columns long is returned
\* unchanged by fold.
C3_ConformingTextUnchanged ==
    (fpc = "done" /\ WithinLimit(text)) => result = text

(***************************************************************************)
(* Properties of the header map.                                           *)
(***************************************************************************)
HasName(seq, name) == \E i \in 1..Len(seq) : seq[i].name = name

WithName(seq, name) == SelectSeq(seq, LAMBDA e : e.name = name)

WithoutName(seq, name) == SelectSeq(seq, LAMBDA e : e.name # name)

FirstIndex(seq, name) ==
    CHOOSE i \in 1..Len(seq) :
        seq[i].name = name /\ \A j \in 1..(i - 1) : seq[j].name # name

\* C4: replace(h) on a map that holds entries named h.name leaves exactly one
\* entry of that name in the iteration order, equal to h, at the position of
\* the first former entry of that name; the other former entries of that name
\* are gone and the entries of other names keep their values and order.
C4_ReplaceInPlace ==
    (last_op.kind = "replace" /\ HasName(iter(pre), last_op.header.name)) =>
        LET h == last_op.header
            old == iter(pre)
            k == FirstIndex(old, h.name)
        IN  iter(hmap) =
                SubSeq(old, 1, k - 1) \o <<h>>
                    \o WithoutName(SubSeq(old, k + 1, Len(old)), h.name)

\* C5: replace(h) on a map without an entry named h.name appends h to the
\* iteration order, len grows by 1, and find(h.name) is exactly that entry.
C5_ReplaceAppendsWhenAbsent ==
    (last_op.kind = "replace" /\ ~HasName(iter(pre), last_op.header.name)) =>
        /\ iter(hmap) = Append(iter(pre), last_op.header)
        /\ len(hmap) = len(pre) + 1
        /\ find(hmap, last_op.header.name) = Some(<<last_op.header>>)

\* C6: after any sequence of insert and replace calls the name index and the
\* ordered sequence describe the same entries: find(name) is the subsequence
\* of iter() with that name, get(name) its last element, and both are absent
\* exactly when iter() has no entry of that name.
C6_IndexMatchesSequence ==
    \A name \in HeaderNames :
        LET sub == WithName(iter(hmap), name)
        IN  IF sub = <<>>
            THEN find(hmap, name) = None /\ get(hmap, name) = None
            ELSE /\ find(hmap, name) = Some(sub)
                 /\ get(hmap, name) = Some(sub[Len(sub)])

\* C7: insert(h) appends and never overwrites: iter() is the previous
\* sequence followed by h and len() grows by exactly 1, also when the name is
\* already present; iterating leaves the map as it was and a complete
\* iteration yields the entries in insertion order.
C7_InsertAppends ==
    /\ last_op.kind = "insert" =>
           /\ iter(hmap) = Append(iter(pre), last_op.header)
           /\ len(hmap) = len(pre) + 1
    /\ last_op.kind = "iter" =>
           /\ hmap = pre
           /\ yielded = SubSeq(iter(hmap), 1, Len(yielded))
           /\ (iter_pos = -1 => yielded = iter(hmap))

\* C7 witness: a complete iteration over a map into which the same name was
\* inserted twice
C7_IteratedDuplicates ==
    /\ last_op.kind = "iter"
    /\ iter_pos = -1
    /\ Len(yielded) >= 2
    /\ yielded[1].name = yielded[2].name
    /\ yielded[1] # yielded[2]

(***************************************************************************)
(* Properties of the message tree.                                         *)
(***************************************************************************)
IsPrefix(p, s) == Len(p) <= Len(s) /\ SubSeq(s, 1, Len(p)) = p

Dashes == <<"-", "-">>
ColonSpace == <<":", SP>>

\* fold as a function of the text alone
fold(s) == emit_folded(<<>>, s)

\* the header lines with the fold applied to each value
RECURSIVE ValueFoldedLines(_)
ValueFoldedLines(hs) ==
    IF hs = <<>>
    THEN <<>>
    ELSE hs[1].name \o ColonSpace \o fold(hs[1].value) \o CRLF
             \o ValueFoldedLines(Tail(hs))

\* the header lines with the fold applied to each whole line
RECURSIVE LineFoldedLines(_)
LineFoldedLines(hs) ==
    IF hs = <<>>
    THEN <<>>
    ELSE fold(hs[1].name \o ColonSpace \o hs[1].value) \o CRLF
             \o LineFoldedLines(Tail(hs))

\* C8: render() emits the entries of the header map in iteration order, each
\* as Name + ': ' + fold(value) + CRLF with the name and ': ' verbatim, then
\* one empty CRLF line, then the body text + CRLF.
C8_RenderFoldsValues ==
    rendered # None =>
        IsPrefix(ValueFoldedLines(iter(message.headers)) \o CRLF
                     \o message.body \o CRLF,
                 rendered[1])

\* C8 as amended: render() emits the entries of the header map in iteration
\* order, each as fold(Name + ': ' + value) + CRLF (the fold runs over the
\* whole header line), then one empty CRLF line, then the body text + CRLF.
C8_RenderFoldsHeaderLines ==
    rendered # None =>
        IsPrefix(LineFoldedLines(iter(message.headers)) \o CRLF
                     \o message.body \o CRLF,
                 rendered[1])

\* C8 witness: a rendered node with two headers, one of them too long for
\* one line, and a body
C8_RenderedLongHeader ==
    /\ rendered # None
    /\ Len(iter(message.headers)) = 2
    /\ \E i \in 1..2 : iter(message.headers)[i].value = ValueLong
    /\ message.body # <<>>

\* the serialization of a node as the specification words it: the header
\* block, the empty line, the body line and, for a node with children, a
\* delimiter line and the serialization of each child, then the closing line
RECURSIVE SpecRender(_), SpecParts(_, _)
SpecParts(m, i) ==
    IF i > Len(m.children)
    THEN <<>>
    ELSE Dashes \o m.boundary \o CRLF \o SpecRender(m.children[i]) \o CRLF
             \o SpecParts(m, i + 1)
SpecRender(m) ==
    LineFoldedLines(iter(m.headers)) \o CRLF \o m.body \o CRLF
        \o (IF m.children = <<>>
            THEN <<>>
            ELSE SpecParts(m, 1) \o Dashes \o m.boundary \o Dashes \o CRLF)

\* C9: render() of a node with children emits after the body line, for each
\* child in order, '--boundary' + CRLF + the child's render() + CRLF, and
\* then one closing '--boundary--' + CRLF, with the node's own boundary and
\* in the same way at every depth; a node without children emits neither.
C9_RenderDelimitsChildren ==
    rendered # None => rendered[1] = SpecRender(message)

\* C9 witness: a rendered node with two children, the first a multipart with
\* another boundary and children of its own
C9_RenderedNested ==
    /\ rendered # None
    /\ Len(message.children) = 2
    /\ message.children[1].children # <<>>
    /\ message.children[1].boundary # message.boundary
    /\ message.children[2].children = <<>>

\* the lines of the header block of a serialized node: those before the
\* first empty line
HeaderBlock(r) ==
    LET ls == Lines(r)
        end == SetMin({k \in 1..Len(ls) : ls[k] = <<>>} \cup {Len(ls) + 1})
    IN  SubSeq(ls, 1, end - 1)

\* the header fields of a header block: a line that starts with a tab
\* continues the field before it
RECURSIVE Unfolded(_)
Unfolded(ls) ==
    IF ls = <<>>
    THEN <<>>
    ELSE LET rest == Unfolded(SubSeq(ls, 1, Len(ls) - 1))
             l == ls[Len(ls)]
         IN  IF l # <<>> /\ l[1] = TAB /\ rest # <<>>
             THEN SubSeq(rest, 1, Len(rest) - 1)
                      \o <<rest[Len(rest)] \o <<SP>> \o Tail(l)>>
             ELSE Append(rest, l)

Contains(s, sub) ==
    \E i \in 0..(Len(s) - Len(sub)) : SubSeq(s, i + 1, i + Len(sub)) = sub

ContentTypeFields(r) ==
    SelectSeq(Unfolded(HeaderBlock(r)),
              LAMBDA f : IsPrefix(NameContentType \o ColonSpace, f))

\* C10: update_headers() on a node with at least one child leaves the node
\* with a multipart type (Mixed if none was set, else the one set), and
\* render() of the node then emits exactly one Content-Type header line; its
\* value names the type's major/minor and carries boundary=<the node's
\* boundary>, whether or not a Content-Type header was in the map before.
C10_UpdateHeadersSetsContentType ==
    (updated /\ rendered # None /\ message.children # <<>>) =>
        /\ message.message_type =
               (IF pre_type[1] = None
                THEN Some("Mixed")
                ELSE pre_type[1])
        /\ LET fields == ContentTypeFields(rendered[1])
               ct == to_content_type(message.message_type[1])
           IN  /\ Len(fields) = 1
               /\ IsPrefix(NameContentType \o ColonSpace \o ct[1] \o <<"/">> \o ct[2],
                           fields[1])
               /\ Contains(fields[1], StrBoundary \o <<"=">> \o message.boundary)

\* the empty lines of s: the positions, among the lines that a CRLF ends, of
\* those without a character
BlankLines(s) ==
    LET ls == Lines(s)
    IN  {k \in 1..(Len(ls) - 1) : ls[k] = <<>>}

\* s from its line k + 1 on
RECURSIVE AfterLine(_, _)
AfterLine(s, k) ==
    IF k = 0
    THEN s
    ELSE AfterLine(SubSeq(s, SetMin(CRLFsFrom(s, 1)) + 2, Len(s)), k - 1)

\* C11: render() of a node without children contains exactly one empty CRLF
\* line, the one that separates the headers from the body, whatever the
\* headers and the body are.
C11_OneBlankLine ==
    (rendered # None /\ message.children = <<>>) =>
        Cardinality(BlankLines(rendered[1])) = 1

\* C11 as amended: render() of a node without children, whose header values
\* have no line break, has no empty line in its header block: the first
\* empty CRLF line is the one that separates the headers from the body, and
\* what follows it is the body text + CRLF (which has further empty lines
\* when the body is empty, ends with a line break or has empty lines).
C11_FirstBlankLineSeparates ==
    (rendered # None /\ message.children = <<>>) =>
        /\ BlankLines(rendered[1]) # {}
        /\ SetMin(BlankLines(rendered[1])) = Len(HeaderBlock(rendered[1])) + 1
        /\ Len(HeaderBlock(rendered[1])) >= Len(iter(message.headers))
        /\ AfterLine(rendered[1], SetMin(BlankLines(rendered[1])))
               = message.body \o CRLF

\* C11 witness: a rendered node without children, with a folded header and a
\* body that ends with a line break, so that a second empty line follows
C11_RenderedLeafTwoBlankLines ==
    /\ rendered # None
    /\ message.children = <<>>
    /\ Len(HeaderBlock(rendered[1])) > Len(iter(message.headers))
    /\ message.body # <<>>
    /\ Cardinality(BlankLines(rendered[1])) = 2

(***************************************************************************)
(* Properties of the address model.                                        *)
(***************************************************************************)
\* the renderings rs joined by ', ', with CRLF + tab put right before the
\* renderings whose index is in B, from the rendering at index i on
RECURSIVE JoinWithBreaks(_, _, _)
JoinWithBreaks(rs, B, i) ==
    IF i > Len(rs)
    THEN <<>>
    ELSE (IF i \in B THEN CRLFTAB ELSE <<>>) \o rs[i]
             \o (IF i < Len(rs) THEN <<",", SP>> ELSE <<>>)
             \o JoinWithBreaks(rs, B, i + 1)

Renderings(as) == [i \in 1..Len(as) |-> Address_to_string(as[i])]

\* C12: fold_address_list never splits inside the rendering of an address:
\* every CRLF + tab it inserts lies between two whole rendered addresses, and
\* without them the result is the renderings joined by ', ' with no ', ' at
\* the end.
C12_BreaksBetweenAddresses ==
    (folded # None /\ folded[1].ok) =>
        \E B \in SUBSET (2..Len(addrs)) :
            folded[1].val.value = JoinWithBreaks(Renderings(addrs), B, 1)

\* C12 as amended: every CRLF + tab that fold_address_list inserts lies right
\* before a whole rendered address, either between two addresses (after the
\* ', ' of the one before) or before the first address when that one does not
\* fit behind the header name; without them the result is the renderings
\* joined by ', ' with no ', ' at the end.
C12_BreaksBeforeAddresses ==
    (folded # None /\ folded[1].ok) =>
        \E B \in SUBSET (1..Len(addrs)) :
            folded[1].val.value = JoinWithBreaks(Renderings(addrs), B, 1)

\* C12 witness: a list of three addresses folded before its first and before
\* its second address, the third following on the line of the second
C12_FoldedBeforeFirstAndSecond ==
    /\ folded # None
    /\ folded[1].ok
    /\ Len(addrs) = 3
    /\ folded[1].val.value = JoinWithBreaks(Renderings(addrs), {1, 2}, 1)

\* C13: making an address-list header from an empty list fails with the
\* empty-list error and gives no header; a header that is made never has an
\* empty value.
C13_EmptyListFails ==
    folded # None =>
        /\ addrs = <<>> => (~folded[1].ok /\ folded[1].err = "EmtpyHeader")
        /\ folded[1].ok => (addrs # <<>> /\ folded[1].val.value # <<>>)

\* C13 witness: Header::new_with_value was called with an empty list
C13_EmptyListGiven == folded # None /\ addrs = <<>> /\ ~folded[1].ok

\* the rendering of a mailbox as the specification words it
SpecMailboxText(m) ==
    LET angle == <<"<">> \o m.address \o <<">">>
    IN  IF m.name = None
        THEN angle
        ELSE IF \A i \in 1..Len(m.name[1]) : m.name[1][i] \in AsciiAlphanumeric \cup {SP}
             THEN m.name[1] \o <<SP>> \o angle
             ELSE encoded_words_encode(m.name[1]) \o <<SP>> \o angle

\* the rendering of an address as the specification words it
SpecAddressText(a) ==
    IF a.kind = "Mailbox"
    THEN SpecMailboxText(a.mboxes[1])
    ELSE a.name \o ColonSpace
             \o JoinWithBreaks([i \in 1..Len(a.mboxes) |-> SpecMailboxText(a.mboxes[i])], {}, 1)
             \o <<";">>

\* C14: a mailbox without display name renders as '<address>', one with a
\* name of ASCII letters, digits and spaces as 'name <address>', one with any
\* other name as the encoded name + ' <address>'; a group renders as its name
\* + ': ' + its members' renderings joined by ', ' + ';', so that an empty
\* group renders as 'name: ;'.
C14_AddressRendering ==
    shown # None =>
        \A i \in 1..Len(addrs) :
            /\ shown[1][i] = SpecAddressText(addrs[i])
            /\ (addrs[i].kind = "Group" /\ addrs[i].mboxes = <<>>) =>
                   shown[1][i] = addrs[i].name \o <<":", SP, ";">>
            /\ (addrs[i].kind = "Mailbox" /\ addrs[i].mboxes[1].name # None
                    /\ ~PlainName(addrs[i].mboxes[1].name[1])) =>
                   \A k \in 1..Len(addrs[i].mboxes[1].name[1]) :
                       shown[1][i][k] # ","

\* C14 witness: the renderings of an empty group, of a group of two members
\* and of a mailbox whose name has to be encoded
C14_RenderedGroupsAndEncodedName ==
    /\ shown # None
    /\ \E i \in 1..Len(addrs) : addrs[i].kind = "Group" /\ addrs[i].mboxes = <<>>
    /\ \E i \in 1..Len(addrs) : addrs[i].kind = "Group" /\ Len(addrs[i].mboxes) = 2
    /\ \E i \in 1..Len(addrs) :
           /\ addrs[i].kind = "Mailbox"
           /\ addrs[i].mboxes[1].name # None
           /\ ~PlainName(addrs[i].mboxes[1].name[1])

(***************************************************************************)
(* Properties of the email builder.                                        *)
(***************************************************************************)
\* build() returned an Email
built == email # None /\ email[1].ok

\* the header fields of the message of the Email, unfolded, in order
Fields == Unfolded(HeaderBlock(email[1].val.message))

\* the name of a header field: what stands before its first colon
FieldName(f) ==
    SubSeq(f, 1, SetMin({i \in 1..Len(f) : f[i] = ":"} \cup {Len(f) + 1}) - 1)

\* the positions of the fields with the given name
FieldsNamed(fs, name) == {i \in 1..Len(fs) : FieldName(fs[i]) = name}

\* the first entry of a From list that is a single mailbox
FirstMailboxEntry(from) ==
    from[SetMin({i \in 1..Len(from) : from[i].kind = "Mailbox"})].mboxes[1]

\* the only Sender field is the one of mailbox m and stands before the
\* address headers
SenderFieldIs(fs, m) ==
    /\ Cardinality(FieldsNamed(fs, NameSender)) = 1
    /\ \A i \in FieldsNamed(fs, NameSender) :
           /\ fs[i] = NameSender \o ColonSpace \o SpecMailboxText(m)
           /\ \A j \in FieldsNamed(fs, NameTo) \cup FieldsNamed(fs, NameFrom)
                      \cup FieldsNamed(fs, NameCc) \cup FieldsNamed(fs, NameReplyTo) :
                  i < j

\* C15: build on a builder with two or more From entries and no Sender set
\* makes the first From entry that is a mailbox the Sender and emits a Sender
\* header for it before the To, From, Cc and Reply-To headers; a Sender that
\* was set is kept, and without one and with fewer than two From entries
\* there is no Sender header.
C15_SenderInferred ==
    built =>
        LET eb == email_builder
        IN  /\ (Len(eb.from) >= 2 /\ eb.sender = None) =>
                   /\ SenderFieldIs(Fields, FirstMailboxEntry(eb.from))
                   /\ eb.envelope = None =>
                          email[1].val.envelope.reverse_path
                              = Some(FirstMailboxEntry(eb.from).address)
            /\ eb.sender # None => SenderFieldIs(Fields, eb.sender[1])
            /\ (Len(eb.from) < 2 /\ eb.sender = None) =>
                   FieldsNamed(Fields, NameSender) = {}

\* C15 witness: an Email built from two different From entries, a To entry
\* and no Sender
C15_BuiltFromTwoAuthors ==
    /\ built
    /\ Len(email_builder.from) = 2
    /\ email_builder.from[1] # email_builder.from[2]
    /\ email_builder.to # <<>>
    /\ email_builder.sender = None
    /\ email_builder.envelope = None

\* the addresses of a list of entries in order, a group standing for the
\* addresses of its members
RECURSIVE AddressesOf(_)
AddressesOf(list) ==
    IF list = <<>>
    THEN <<>>
    ELSE [i \in 1..Len(list[1].mboxes) |-> list[1].mboxes[i].address]
             \o AddressesOf(Tail(list))

C17_ReversePathDerived ==
    (email # None /\ email_builder.envelope = None) =>
        LET eb == email_builder
        IN  /\ email[1].ok =>
                   email[1].val.envelope.reverse_path =
                       Some(IF eb.sender # None
                            THEN eb.sender[1].address
                            ELSE IF Len(eb.from) >= 2
                                 THEN FirstMailboxEntry(eb.from).address
                                 ELSE eb.from[1].mboxes[1].address)
            /\ (eb.from = <<>> /\ eb.sender = None) =>
                   (~email[1].ok /\ email[1].err = "MissingFrom")

\* C17 witness: build failed for a builder with a receiver, without From
\* entry, Sender and Envelope
C17_BuildWithoutAuthorFailed ==
    /\ email # None
    /\ ~email[1].ok
    /\ email[1].err = "MissingFrom"
    /\ email_builder.envelope = None
    /\ email_builder.from = <<>>
    /\ email_builder.sender = None
    /\ email_builder.to # <<>>

\* C18: an Envelope has a forward path that is not empty: build without an
\* Envelope given and without To, Cc and Bcc entries fails (with the
\* empty-forward-path error of Envelope::new when a sender address was
\* found), and the Envelope of every Email that build returns has a receiver.
C18_ForwardPathNotEmpty ==
    email # None =>
        LET eb == email_builder
        IN  /\ (eb.envelope = None /\ eb.to = <<>> /\ eb.cc = <<>> /\ eb.bcc = <<>>) =>
                   /\ ~email[1].ok
                   /\ (eb.from # <<>> \/ eb.sender # None) => email[1].err = "MissingTo"
            /\ email[1].ok => email[1].val.envelope.forward_path # <<>>

\* C18 witness: build failed with the empty-forward-path error for a builder
\* with a From entry and no receiver
C18_BuildWithoutReceiverFailed ==
    /\ email # None
    /\ ~email[1].ok
    /\ email[1].err = "MissingTo"
    /\ email_builder.from # <<>>
    /\ email_builder.envelope = None

\* C19: with an Envelope given to the builder, the Email that build returns
\* carries exactly that Envelope: none is derived, so the To, Cc, Bcc, From and
\* Sender entries change neither path, and build does not fail for want of a
\* receiver or of a sender address that only a derivation needs.
C19_GivenEnvelopeKept ==
    (email # None /\ email_builder.envelope # None) =>
        /\ email[1].ok => email[1].val.envelope = email_builder.envelope[1]
        /\ (email_builder.from # <<>> \/ email_builder.envelope[1].reverse_path # None) =>
               email[1].ok

\* C19 witness: an Email built with an Envelope given whose paths differ
\* from the builder's To and From entries
C19_BuiltWithGivenEnvelope ==
    /\ built
    /\ email_builder.envelope # None
    /\ email_builder.to # <<>>
    /\ email_builder.from # <<>>
    /\ email[1].val.envelope.forward_path # AddressesOf(email_builder.to)
    /\ email[1].val.envelope.reverse_path
           # Some(email_builder.from[1].mboxes[1].address)

\* C20: with no From entry at build, a From header of one mailbox is made
\* from the reverse path of the Envelope (derived or given); when the
\* Envelope has no reverse path either, build fails with the missing-sender
\* error and returns no Email.  So every Email has a From header.
C20_FromSynthesized ==
    email # None =>
        LET eb == email_builder
        IN  /\ email[1].ok =>
                   /\ Cardinality(FieldsNamed(Fields, NameFrom)) = 1
                   /\ eb.from = <<>> =>
                          /\ email[1].val.envelope.reverse_path # None
                          /\ \A i \in FieldsNamed(Fields, NameFrom) :
                                 Fields[i] = NameFrom \o ColonSpace \o <<"<">>
                                                 \o email[1].val.envelope.reverse_path[1]
                                                 \o <<">">>
            /\ (eb.from = <<>> /\ eb.envelope # None /\ eb.envelope[1].reverse_path = None) =>
                   (~email[1].ok /\ email[1].err = "MissingFrom")
            /\ (eb.from = <<>> /\ eb.envelope = None /\ eb.sender = None) =>
                   (~email[1].ok /\ email[1].err = "MissingFrom")

\* C20 witness: an Email built without From entry, with an Envelope given
\* that has a reverse path
C20_BuiltWithoutFromEntry ==
    /\ built
    /\ email_builder.from = <<>>
    /\ email_builder.envelope # None
    /\ email_builder.to # <<>>

(***************************************************************************)
(* Properties of the headers of a built message.                           *)
(***************************************************************************)
\* the names of the header fields of the message of the Email, in order
FieldNames == [i \in 1..Len(Fields) |-> FieldName(Fields[i])]

\* <<name>> when the condition holds, nothing otherwise
NameIf(cond, name) == IF cond THEN <<name>> ELSE <<>>

\* the names of the headers build adds for the builder eb, in the order of
\* the specification
BuildNames(eb) ==
    NameIf(eb.sender # None \/ Len(eb.from) >= 2, NameSender)
        \o NameIf(eb.to # <<>>, NameTo)
        \o <<NameFrom>>
        \o NameIf(eb.cc # <<>>, NameCc)
        \o NameIf(eb.reply_to # <<>>, NameReplyTo)
        \o NameIf(eb.in_reply_to # <<>>, NameInReplyTo)
        \o NameIf(eb.references # <<>>, NameReferences)
        \o NameIf(~eb.date_issued, NameDate)
        \o <<NameMimeVersion>>
        \o NameIf(eb.message_id = None, NameMessageId)

\* C21: the headers of a built message stand in a fixed order: first those
\* the calls before build set (subject, date, message_id, header,
\* replace_header) in call order, then Sender, To, From, Cc, Reply-To,
\* In-Reply-To, References, Date (only when synthesized), MIME-Version and
\* Message-ID (only when synthesized), whatever the order of the address calls
C21_HeaderOrder == built => FieldNames = added \o BuildNames(email_builder)

\* the header fields of the built message that are named Message-ID
MessageIdFields == SelectSeq(Fields, LAMBDA f : FieldName(f) = NameMessageId)

\* message_id() was called before build
MessageIdCalled == \E i \in 1..Len(added) : added[i] = NameMessageId

\* C22: without a call of message_id build makes a fresh identifier, emits
\* the one field Message-ID: <id.lettre@localhost> and records the bare
\* identifier as the Email's message-id; after message_id(id) the field
\* carries id verbatim, none is synthesized and the Email's message-id is id
C22_MessageId ==
    built =>
        IF MessageIdCalled
        THEN /\ MessageIdFields # <<>>
             /\ \A i \in 1..Len(MessageIdFields) :
                    MessageIdFields[i] = NameMessageId \o ColonSpace \o IdGiven
             /\ email[1].val.message_id = IdGiven
        ELSE /\ MessageIdFields =
                    <<NameMessageId \o ColonSpace \o <<"<">> \o UuidNew
                          \o <<".">> \o <<"l", "e", "t", "t", "r", "e">>
                          \o <<"@">> \o <<"l", "o", "c", "a", "l", "h", "o", "s", "t">>
                          \o <<">">>>>
             /\ email[1].val.message_id = UuidNew

\* an Email was built after message_id() and other calls that set headers
C22_BuiltWithGivenId ==
    /\ built
    /\ MessageIdCalled
    /\ Len(added) >= 2
    /\ email_builder.to # <<>>

NameBcc == <<"B", "c", "c">>

\* what build returns for the builder as it is but without its Bcc entries,
\* at the same date and with the same fresh identifier
BuiltWithoutBcc(order) ==
    EmailBuilder_build([email_builder EXCEPT !.bcc = <<>>], DateNow, UuidNew, order)

SecondOfCRLF(s, i) == s[i] = LF /\ i > 1 /\ s[i - 1] = CR

\* what stands in the normalised text for position i of s: one CRLF for a
\* CRLF, a lone CR or a lone LF, and the character itself otherwise
NormalPiece(s, i) ==
    IF SecondOfCRLF(s, i) THEN <<>>
    ELSE IF s[i] = CR \/ s[i] = LF THEN CRLF
    ELSE <<s[i]>>

Normalised(s) == Flatten([i \in 1..Len(s) |-> NormalPiece(s, i)])

\* s has no CR without the LF after it and no LF without the CR before it
NoBareBreak(s) ==
    \A i \in 1..Len(s) :
        /\ s[i] = CR => (i < Len(s) /\ s[i + 1] = LF)
        /\ s[i] = LF => (i > 1 /\ s[i - 1] = CR)

\* C24: body() turns every CRLF, every lone CR and every lone LF of the
\* text into exactly one CRLF and keeps all other characters in order; the
\* stored body has no bare CR and no bare LF, and a text that is normalised
\* already is stored as it is
C24_BodyNormalised ==
    body_arg # None =>
        /\ message.body = Normalised(body_arg[1])
        /\ NoBareBreak(message.body)
        /\ NoBareBreak(body_arg[1]) => message.body = body_arg[1]

\* body() was called again with the body it had stored for a text of one
\* letter and three line breaks
C24_MixedBreaksNormalisedTwice ==
    /\ body_arg # None
    /\ body_arg[1] = <<"a">> \o CRLF \o CRLF \o CRLF
    /\ message.body = body_arg[1]

(***************************************************************************)
(* Properties of the multipart type conversions.                           *)
(***************************************************************************)
\* the minor type the specification gives for each multipart type
MinorOf(t) ==
    CASE t = "Mixed" -> <<"m", "i", "x", "e", "d">>
      [] t = "Alternative" -> <<"a", "l", "t", "e", "r", "n", "a", "t", "i", "v", "e">>
      [] t = "Digest" -> <<"d", "i", "g", "e", "s", "t">>
      [] t = "Encrypted" -> <<"e", "n", "c", "r", "y", "p", "t", "e", "d">>
      [] t = "Parallel" -> <<"p", "a", "r", "a", "l", "l", "e", "l">>
      [] t = "Signed" -> <<"s", "i", "g", "n", "e", "d">>

\* C25: to_content_type maps each of the six multipart types to
\* ('multipart', its own minor type) and from_content_type maps that pair
\* back to the type; any other minor type under 'multipart' maps to Mixed,
\* and a content type whose major type is not 'multipart' maps to nothing
C25_TypeConversions ==
    /\ mtype # None =>
           /\ ctype = <<<<"m", "u", "l", "t", "i", "p", "a", "r", "t">>, MinorOf(mtype[1])>>
           /\ parsed # None => parsed[1] = Some(mtype[1])
    /\ parsed # None =>
           IF ctype[1] # <<"m", "u", "l", "t", "i", "p", "a", "r", "t">>
           THEN parsed[1] = None
           ELSE IF \E t \in MultipartTypes : ctype[2] = MinorOf(t)
                THEN \E t \in MultipartTypes : ctype[2] = MinorOf(t) /\ parsed[1] = Some(t)
                ELSE parsed[1] = Some("Mixed")

\* from_content_type was given ('multipart', 'potato')
C25_ParsedUnknownMinor ==
    /\ parsed # None
    /\ mtype = None
    /\ ctype = <<<<"m", "u", "l", "t", "i", "p", "a", "r", "t">>, <<"p", "o", "t", "a", "t", "o">>>>
    /\ parsed[1] = Some("Mixed")

(***************************************************************************)
(* The scan of the specification of the line folder.                       *)
(***************************************************************************)
\* the state of the specified scan: the counter, whether a space has been
\* seen since the last cut, the position of the most recent space, the
\* position at which the text not yet emitted starts, and the output
ScanStart == [count |-> 0, seen |-> FALSE, space |-> 0, cut |-> 1, out |-> <<>>]

\* the scan of the character at position i (counted from 1): the counter
\* restarts at an embedded CR or LF and counts every character scanned
ScanStep(st, s, i) ==
    LET seen == st.seen \/ s[i] = SP
        space == IF s[i] = SP THEN i ELSE st.space
        count == (IF s[i] \in {CR, LF} THEN 0 ELSE st.count) + 1
    IN  IF count >= 78 /\ seen
        THEN [count |-> 0, seen |-> FALSE, space |-> space, cut |-> space + 1,
              out |-> st.out \o SubSeq(s, st.cut, space - 1) \o CRLFTAB]
        ELSE [st EXCEPT !.count = count, !.seen = seen, !.space = space]

\* the scan of the positions lo..hi in order, by halves
RECURSIVE ScanRange(_, _, _, _)
ScanRange(st, s, lo, hi) ==
    IF lo > hi
    THEN st
    ELSE IF lo = hi
         THEN ScanStep(st, s, lo)
         ELSE LET mid == (lo + hi) \div 2
                  half == ScanRange(st, s, lo, mid)
              IN  IF half.count >= 0
                  THEN ScanRange(half, s, mid + 1, hi)
                  ELSE half

\* the result of the specified scan: what was emitted and the tail
Scanned(s) ==
    LET st == ScanRange(ScanStart, s, 1, Len(s))
    IN  st.out \o SubSeq(s, st.cut, Len(s))

\* C26: fold(text) is the result of the specified scan: whenever the counter
\* of characters since the last cut or embedded CR/LF reaches 78 and a space
\* has been seen since the last cut, the text from the last cut up to the
\* most recent space (excluded) is emitted with CRLF + tab, the counter
\* restarts at 0 and the cut moves just past that space; without a space
\* seen nothing is cut; the tail is emitted as it is
C26_FoldIsSpecifiedScan == fpc = "done" => result = Scanned(text)

(***************************************************************************)
(* The wrap rule of the address-list folding.                              *)
(***************************************************************************)
\* the length of the rendering of the i-th address with its ', '
Appended(as, i) == Len(Address_to_string(as[i])) + 2

\* the column counter before the i-th address is looked at: header-name
\* length + 2 at first, then the counter of the address before, restarted
\* at 0 if the list was wrapped there, plus the length appended
RECURSIVE ColumnBefore(_, _, _)
ColumnBefore(name, as, i) ==
    IF i = 1
    THEN Len(name) + 2
    ELSE LET before == ColumnBefore(name, as, i - 1)
         IN  (IF before + Appended(as, i - 1) > 78 THEN 0 ELSE before) + Appended(as, i - 1)

\* the addresses before which the list is wrapped
Wraps(name, as) ==
    {i \in 1..Len(as) : ColumnBefore(name, as, i) + Appended(as, i) > 78}

\* the value is the renderings joined by ', ', wrapped exactly before the
\* addresses of Wraps, with no ', ' at its end and no CRLF when the whole
\* list fits on the line
WrappedAsCounted(name, as, value) ==
    LET whole == Len(name) + 2 + Len(JoinWithBreaks(Renderings(as), {}, 1)) + 2
    IN  /\ value = JoinWithBreaks(Renderings(as), Wraps(name, as), 1)
        /\ SubSeq(value, Len(value) - 1, Len(value)) # <<",", SP>>
        /\ whole <= 78 => ~Contains(value, CRLF)

\* the positions of value at which a CRLF + tab starts
WrapsAt(value) == {k \in 1..(Len(value) - 2) : SubSeq(value, k, k + 2) = CRLFTAB}

ParamText(key, val) == <<";", SP>> \o key \o <<"=">> \o val

\* the ways to put the keys of the map p in a row
KeyRows(p) ==
    {o \in [1..Cardinality(DOMAIN p) -> DOMAIN p] :
        \A i, j \in 1..Cardinality(DOMAIN p) : o[i] = o[j] => i = j}

\* the parameters of p in the order of the row o
ParamsInRow(p, o) == Flatten([i \in 1..Len(o) |-> ParamText(o[i], p[o[i]])])

\* the extra parameters of the node
ExtraParams ==
    IF message.message_type_params = None THEN EmptyParams ELSE message.message_type_params[1]

\* the value of the Content-Type header the node holds
ContentTypeValue == get(message.headers, NameContentType)[1].value

\* C28: the Content-Type value update_headers() writes is major/minor, then
\* all extra parameters as '; key=value', then '; boundary=' with the token
\* of the node: the boundary parameter comes last and once, whatever the
\* extra parameters are
C28_BoundaryParameterLast ==
    (updated /\ message.message_type # None) =>
        /\ get(message.headers, NameContentType) # None
        /\ \E o \in KeyRows(ExtraParams) :
               ContentTypeValue =
                   StrMultipart \o <<"/">> \o MinorOf(message.message_type[1])
                       \o ParamsInRow(ExtraParams, o)
                       \o ParamText(StrBoundary, message.boundary)

(***************************************************************************)
(* Properties of the address-list headers of a built message.              *)
(***************************************************************************)
\* the header line of the specification for the list under the name: the
\* name, ': ' and the value fold_address_list gives at that column
AddressLine(name, list) ==
    name \o ColonSpace \o to_folded_header(Len(name) + 2, list).val \o CRLF

\* the text holds the line, at its start or right after a CRLF
HasLine(msg, line) == IsPrefix(line, msg) \/ Contains(msg, CRLF \o line)

\* C29: in the message build makes, every address-list header (To, From,
\* Cc, Reply-To) is exactly its name, ': ' and the value fold_address_list
\* gave: the line folding of render adds no further break to it
C29_AddressHeadersNotRefolded ==
    built =>
        /\ email_builder.to # <<>> =>
               HasLine(email[1].val.message, AddressLine(NameTo, email_builder.to))
        /\ email_builder.from # <<>> =>
               HasLine(email[1].val.message, AddressLine(NameFrom, email_builder.from))
        /\ email_builder.cc # <<>> =>
               HasLine(email[1].val.message, AddressLine(NameCc, email_builder.cc))
        /\ email_builder.reply_to # <<>> =>
               HasLine(email[1].val.message, AddressLine(NameReplyTo, email_builder.reply_to))

(***************************************************************************)
(* The assertions of build.                                                *)
(***************************************************************************)
\* the built message has a Sender field
SenderFieldPresent == FieldsNamed(Fields, NameSender) # {}

\* the failures build returns as values
TypedFailures == {"MissingFrom", "MissingTo", "Address"}

\* C30: the assertions of build never fail for a builder assembled by the
\* builder's operations: with two or more From entries and no Sender some
\* From entry is a Mailbox, and when the Envelope is derived without a
\* Sender the From list has at most one entry; build returns an Email or a
\* typed failure and never traps
C30_AssertionsHold ==
    /\ (Len(email_builder.from) >= 2 /\ email_builder.sender = None) =>
           \E i \in 1..Len(email_builder.from) : email_builder.from[i].kind = "Mailbox"
    /\ email # None =>
           /\ email[1].err # "panic"
           /\ email[1].ok \/ email[1].err \in TypedFailures
           /\ (email_builder.envelope = None /\ email[1].ok /\ ~SenderFieldPresent) =>
                  Len(email_builder.from) <= 1

\* build was called on a builder with two From entries, no Sender and no
\* Envelope given, and returned
C30_BuildPassedBothAssertions ==
    /\ email # None
    /\ email[1].ok
    /\ Len(email_builder.from) = 2
    /\ email_builder.sender = None
    /\ email_builder.envelope = None
    /\ email_builder.to # <<>>
====
